---- MODULE Spec2Model ----
(***************************************************************************)
(* A model of chunky (github.com/wyvernzora/chunky): the greedy packer of  *)
(* pkg/chunker (chunkBuilder, chunkDocument, traverseUnits), the tokenizer *)
(* walk of pkg/tokenizer, the transform pipelines of pkg/section and       *)
(* pkg/frontmatter, and the chunker object (New, Push, Chunks, Reset).     *)
(*                                                                         *)
(* Text is a sequence of symbols (strings); "" of the source is << >>.     *)
(* A section tree is a store of nodes addressed by their index (the        *)
(* pointer of the source); node 1 is the root.                             *)
(***************************************************************************)
EXTENDS Integers, Sequences, FiniteSets, TLC

VARIABLES
    \* ---- packing one document (chunkDocument run step by step) ----
    params,     \* chunkDocumentParams of the run
    units,      \* the slice returned by traverseUnits(params.root)
    pos,        \* index of the next unit of the range loop
    builder,    \* the chunkBuilder
    emitted,    \* the local slice "chunks" of chunkDocument
    origin,     \* per emitted chunk: the branch that built it and its parts
    \* ---- one chunker and the calls made on it ----
    chunker,    \* the defaultChunker: [config, effectiveBudget, chunks]
    lastCall,   \* the last call: [op, input, ctx, before, out]
    hist,       \* the chunk lists of the documents pushed without error
                \* since New or the last Reset, in push order
    calls,      \* number of calls made
    \* ---- New on drawn options ----
    given,      \* the options handed to New
    made,       \* what New returned: [c, err]
    \* ---- the command line's run ----
    run,        \* RunCmd.Run: its options, files, position and output
    \* ---- the parser's fold ----
    worker,     \* the parser's worker: src, spans, root, stack, cursor
    \* ---- Tokenize on a drawn tree ----
    measured,   \* [tree, counter, out]: out is what Tokenize returned
    \* ---- the metadata view over a heap ----
    store,      \* [heap, doc, view, held, ...]: a metadata map, its view and
                \* the values obtained from the view
    \* ---- the default tree transforms applied again ----
    passes,     \* the tree as drawn and after each application of the set
    \* ---- section.ApplyTransform called with a list of transforms ----
    walked,     \* [tree, ts, out]: the tree and the list given, what it returned
    pc          \* which run this is and where it stands

packVars == <<params, units, pos, builder, emitted, origin>>

chunkerVars == <<chunker, lastCall, hist, calls>>

newVars == <<given, made>>

runVars == <<run>>

workerVars == <<worker>>

measureVars == <<measured>>

storeVars == <<store>>

passVars == <<passes>>

walkVars == <<walked>>

vars == <<packVars, chunkerVars, newVars, runVars, workerVars, measureVars,
          storeVars, passVars, walkVars, pc>>

(***************************************************************************)
(* Bounds of the model.                                                    *)
(***************************************************************************)
MaxNodes == 3
MaxTok == 3
MaxBudget == 3
MaxCalls == 2
MaxCancelAt == 2
MaxNewBudget == 12
MaxCancelPoint == 10
RatioDen == 10

----------------------------------------------------------------------------
(***************************************************************************)
(* Generic helpers.                                                        *)
(***************************************************************************)
RECURSIVE SumSeq(_)
SumSeq(s) == IF s = << >> THEN 0 ELSE Head(s) + SumSeq(Tail(s))

\* strings.Join(parts, ""): the concatenation of a sequence of texts.
RECURSIVE Join(_)
Join(ps) == IF ps = << >> THEN << >> ELSE Head(ps) \o Join(Tail(ps))

\* The concatenation of a sequence of sequences (same operation, used on
\* sequences of parts rather than on texts).
RECURSIVE Flatten(_)
Flatten(ss) == IF ss = << >> THEN << >> ELSE Head(ss) \o Flatten(Tail(ss))

Reverse(s) == [i \in 1..Len(s) |-> s[Len(s) + 1 - i]]

----------------------------------------------------------------------------
(***************************************************************************)
(* float64 arithmetic, as far as New needs it.  A natural number is the    *)
(* sequence of its digits in base LimbBase, most significant first (0 is   *)
(* << >>); a float64 is [m, e] with value m * 2^e and m of at most         *)
(* Float64Mantissa binary digits.  Results are rounded to nearest, ties to *)
(* even, as the hardware does (the values met here are far from overflow   *)
(* and from subnormals).                                                   *)
(***************************************************************************)
Float64Mantissa == 53
LimbBits == 15
LimbBase == 2^LimbBits

\* binary digits of headroom used when a decimal literal is converted
LiteralScale == 75

ZeroLimbs(k) == [i \in 1..k |-> 0]

RECURSIVE StripZeros(_)
StripZeros(ls) ==
    IF ls # << >> /\ Head(ls) = 0 THEN StripZeros(Tail(ls)) ELSE ls

RECURSIVE LimbsOf(_)
LimbsOf(n) ==
    IF n = 0 THEN << >> ELSE Append(LimbsOf(n \div LimbBase), n % LimbBase)

RECURSIVE ValOf(_)
ValOf(ls) ==
    IF ls = << >> THEN 0
    ELSE LimbBase * ValOf(SubSeq(ls, 1, Len(ls) - 1)) + ls[Len(ls)]

\* number of binary digits of a natural number below LimbBase
SmallBitLen(x) == CHOOSE k \in 0..LimbBits : x < 2^k /\ (k = 0 \/ x >= 2^(k - 1))

\* number of binary digits of ls (ls without leading zero limbs)
BitLen(ls) ==
    IF ls = << >> THEN 0 ELSE (Len(ls) - 1) * LimbBits + SmallBitLen(ls[1])

\* ls * m + carry, for a small integer m
RECURSIVE MulSmall(_, _, _)
MulSmall(ls, m, carry) ==
    IF ls = << >> THEN LimbsOf(carry)
    ELSE LET t == ls[Len(ls)] * m + carry IN
         Append(MulSmall(SubSeq(ls, 1, Len(ls) - 1), m, t \div LimbBase),
                t % LimbBase)

\* long division of ls by a small integer d: [q, r], q with the limbs of ls
RECURSIVE DivSmall(_, _, _, _)
DivSmall(ls, d, rem, q) ==
    IF ls = << >> THEN [q |-> q, r |-> rem]
    ELSE LET t == LimbBase * rem + Head(ls) IN
         DivSmall(Tail(ls), d, t % d, Append(q, t \div d))

\* a - b - borrow for a >= b, limb by limb from the right; Len(a) limbs
RECURSIVE SubLimbs(_, _, _)
SubLimbs(a, b, borrow) ==
    IF a = << >> THEN << >>
    ELSE LET x == a[Len(a)]
             y == (IF b = << >> THEN 0 ELSE b[Len(b)]) + borrow
             b1 == IF b = << >> THEN << >> ELSE SubSeq(b, 1, Len(b) - 1)
         IN Append(SubLimbs(SubSeq(a, 1, Len(a) - 1), b1, IF x < y THEN 1 ELSE 0),
                   IF x < y THEN x + LimbBase - y ELSE x - y)

\* ls + 1
RECURSIVE IncLimbs(_)
IncLimbs(ls) ==
    IF ls = << >> THEN <<1>>
    ELSE IF ls[Len(ls)] < LimbBase - 1
    THEN [ls EXCEPT ![Len(ls)] = ls[Len(ls)] + 1]
    ELSE Append(IncLimbs(SubSeq(ls, 1, Len(ls) - 1)), 0)

\* 2^n
PowerOfTwo(n) == <<2^(n % LimbBits)>> \o ZeroLimbs(n \div LimbBits)

\* ls shifted right by k binary digits: [q, lost], lost telling whether a
\* non-zero digit was shifted out
ShiftRight(ls, k) ==
    LET whole == k \div LimbBits
        kept == IF whole >= Len(ls) THEN << >> ELSE SubSeq(ls, 1, Len(ls) - whole)
        gone == IF whole >= Len(ls) THEN ls ELSE SubSeq(ls, Len(ls) - whole + 1, Len(ls))
        d == DivSmall(kept, 2^(k % LimbBits), 0, << >>)
    IN [q |-> StripZeros(d.q),
        lost |-> d.r # 0 \/ \E i \in 1..Len(gone) : gone[i] # 0]

\* the float64 nearest to ls * 2^e (ties to even)
RoundFloat64(limbs, e) ==
    LET ls == StripZeros(limbs)
        n == BitLen(ls)
    IN IF n <= Float64Mantissa THEN [m |-> ls, e |-> e]
       ELSE LET k == n - Float64Mantissa
                s == ShiftRight(ls, k - 1)
                half == s.q[Len(s.q)] % 2 = 1
                keep == ShiftRight(s.q, 1).q
                up == half /\ (s.lost \/ keep[Len(keep)] % 2 = 1)
                m1 == IF up THEN IncLimbs(keep) ELSE keep
            IN IF BitLen(m1) > Float64Mantissa
               THEN [m |-> ShiftRight(m1, 1).q, e |-> e + k + 1]
               ELSE [m |-> m1, e |-> e + k]

\* the float64 a decimal literal p/q (p >= 0, q > 0) denotes
Float64OfRatio(p, q) ==
    IF p = 0 THEN [m |-> << >>, e |-> 0]
    ELSE LET d == DivSmall(LimbsOf(p) \o ZeroLimbs(LiteralScale \div LimbBits),
                           q, 0, << >>)
         IN RoundFloat64(MulSmall(d.q, 2, IF d.r # 0 THEN 1 ELSE 0),
                         -(LiteralScale + 1))

\* 1.0 - x for a float64 0 <= x < 1
OneMinus(x) ==
    IF x.m = << >> THEN [m |-> <<1>>, e |-> 0]
    ELSE RoundFloat64(SubLimbs(PowerOfTwo(-x.e), x.m, 0), x.e)

\* float64(b) * x for a small integer b >= 0
TimesInt(b, x) == RoundFloat64(MulSmall(x.m, b, 0), x.e)

\* int(x) for a float64 x >= 0: truncation
TruncToInt(x) ==
    IF x.e >= 0 THEN ValOf(MulSmall(x.m, 2^x.e, 0))
    ELSE ValOf(ShiftRight(x.m, -x.e).q)

----------------------------------------------------------------------------
(***************************************************************************)
(* Text.  A text is a sequence of symbols; a symbol is a word (characters  *)
(* that are not white space) or one white-space character.  The functions  *)
(* of package strings used by the source, on such texts.                   *)
(***************************************************************************)
NL == "\n"
CR == "\r"
Blank == {" ", "\t"}
Space == Blank \cup {NL, CR}

\* strings.Split(text, "\n")
RECURSIVE SplitLoop(_, _, _)
SplitLoop(text, cur, acc) ==
    IF text = << >> THEN Append(acc, cur)
    ELSE IF Head(text) = NL THEN SplitLoop(Tail(text), << >>, Append(acc, cur))
    ELSE SplitLoop(Tail(text), Append(cur, Head(text)), acc)

Split(text) == SplitLoop(text, << >>, << >>)

\* strings.Join(lines, "\n")
RECURSIVE JoinLines(_)
JoinLines(lines) ==
    IF lines = << >> THEN << >>
    ELSE IF Len(lines) = 1 THEN lines[1]
    ELSE lines[1] \o <<NL>> \o JoinLines(Tail(lines))

RECURSIVE TrimLeft(_)
TrimLeft(text) ==
    IF text # << >> /\ Head(text) \in Space THEN TrimLeft(Tail(text)) ELSE text

\* strings.TrimSpace
TrimSpace(text) == Reverse(TrimLeft(Reverse(TrimLeft(text))))

\* strings.HasPrefix
HasPrefix(text, prefix) ==
    Len(text) >= Len(prefix) /\ SubSeq(text, 1, Len(prefix)) = prefix

\* strings.Repeat(sym, n)
Repeat(sym, n) == [k \in 1..n |-> sym]

\* strings.ReplaceAll(text, old, new) for a non-empty old
RECURSIVE ReplaceAll(_, _, _)
ReplaceAll(text, old, new) ==
    IF text = << >> THEN << >>
    ELSE IF HasPrefix(text, old)
    THEN new \o ReplaceAll(SubSeq(text, Len(old) + 1, Len(text)), old, new)
    ELSE <<Head(text)>> \o ReplaceAll(Tail(text), old, new)

\* strings.Join(parts, sep) for texts
RECURSIVE JoinSep(_, _)
JoinSep(parts, sep) ==
    IF parts = << >> THEN << >>
    ELSE IF Len(parts) = 1 THEN parts[1]
    ELSE parts[1] \o sep \o JoinSep(Tail(parts), sep)

----------------------------------------------------------------------------
(***************************************************************************)
(* pkg/section: the Section tree, a store of nodes [n, parent, title,      *)
(* level, content, children]; parent 0 is the nil parent.                  *)
(***************************************************************************)

\* Section.Children(): the children of node i, in insertion order.
Children(tree, i) == tree.children[i]

\* Section.Content()
Content(tree, i) == tree.content[i]

\* Section.SetContent
SetContent(tree, i, text) == [tree EXCEPT !.content[i] = text]

\* section.NewRoot(title)
NewRoot(title) ==
    [n |-> 1, parent |-> <<0>>, title |-> <<title>>, level |-> <<0>>,
     content |-> << << >> >>, children |-> << << >> >>]

\* Section.CreateChild(title, level, content) on node p: the new node is
\* node tree.n + 1
CreateChild(tree, p, title, level, content) ==
    [n |-> tree.n + 1,
     parent |-> Append(tree.parent, p),
     title |-> Append(tree.title, title),
     level |-> Append(tree.level, level),
     content |-> Append(tree.content, content),
     children |-> Append([tree.children EXCEPT ![p] = Append(@, tree.n + 1)],
                         << >>)]

----------------------------------------------------------------------------
(***************************************************************************)
(* pkg/section/builtin: the default tree transforms.  A transform value is *)
(* [kind, arg, n]; applied to node s of a tree it returns [tree, err].     *)
(* The paragraphs and code blocks the source asks goldmark for are found   *)
(* here by line: a paragraph is a maximal run of lines that are not blank  *)
(* and do not open another block; the documents of this model hold no code *)
(* block.                                                                  *)
(***************************************************************************)
NoErr == "nil"

Kept(tree) == [tree |-> tree, err |-> NoErr]

\* NormalizeNewlinesTransform
NormalizeNewlinesTransform(tree, s) ==
    LET content == Content(tree, s)
        c1 == ReplaceAll(content, <<CR, NL>>, <<NL>>)
        c2 == ReplaceAll(c1, <<CR>>, <<NL>>)
    IN Kept(SetContent(tree, s, c2))

IsBlankLine(line) == \A k \in 1..Len(line) : line[k] \in Space

\* the first symbols of the lines that open a block other than a paragraph
BlockOpeners == {"#", "<!--", ">"}

IsParagraphLine(line) ==
    ~IsBlankLine(line) /\ Head(TrimLeft(line)) \notin BlockOpeners

\* offset (from 0) of the first symbol of line k
LineStart(lines, k) == SumSeq([j \in 1..(k - 1) |-> Len(lines[j]) + 1])

\* the spans {start, end} of the paragraphs: from the first line's first
\* symbol that is not white space to the end of the last line's last one
ParagraphSpans(src) ==
    LET lines == Split(src)
        n == Len(lines)
        para(k) == IsParagraphLine(lines[k])
        firsts == SelectSeq([k \in 1..n |-> k],
                            LAMBDA k : para(k) /\ (k = 1 \/ ~para(k - 1)))
        lastOf(k) == CHOOSE m \in k..n :
                        /\ \A j \in k..m : para(j)
                        /\ m = n \/ ~para(m + 1)
        indent(k) == Len(lines[k]) - Len(TrimLeft(lines[k]))
        used(k) == Len(Reverse(TrimLeft(Reverse(lines[k]))))
    IN [i \in 1..Len(firsts) |->
           [start |-> LineStart(lines, firsts[i]) + indent(firsts[i]),
            end |-> LineStart(lines, lastOf(firsts[i])) + used(lastOf(firsts[i]))]]

\* the index after the spaces and tabs that begin at j
RECURSIVE SkipBlanks(_, _)
SkipBlanks(b, j) ==
    IF j <= Len(b) /\ b[j] \in Blank THEN SkipBlanks(b, j + 1) ELSE j

\* joinSingleNewlines: the loop over i (an index from 1) with its out buffer
RECURSIVE joinLoop(_, _, _)
joinLoop(b, i, out) ==
    IF i > Len(b) THEN out
    ELSE IF b[i] # NL THEN joinLoop(b, i + 1, Append(out, b[i]))
    ELSE LET prevIsNL == Len(out) > 0 /\ out[Len(out)] = NL
             j == SkipBlanks(b, i + 1)
             nextIsNL == j <= Len(b) /\ b[j] = NL
         IN IF prevIsNL \/ nextIsNL
            THEN joinLoop(b, i + 1, Append(out, NL))
            ELSE joinLoop(b, j, IF Len(out) = 0 \/ out[Len(out)] # " "
                                THEN Append(out, " ") ELSE out)

joinSingleNewlines(b) == joinLoop(b, 1, << >>)

\* src with the segment of every span replaced by its image under the
\* edit "joined" or "collapsed" (the edits of the source, which it applies
\* from the last span to the first); at is the offset already copied
RECURSIVE applyJoins(_, _, _)
applyJoins(src, spans, at) ==
    IF spans = << >> THEN SubSeq(src, at + 1, Len(src))
    ELSE LET sp == Head(spans) IN
         SubSeq(src, at + 1, sp.start)
           \o joinSingleNewlines(SubSeq(src, sp.start + 1, sp.end))
           \o applyJoins(src, Tail(spans), sp.end)

\* NormalizeHardWrapsTransform / normalizeHardWrapsImpl
NormalizeHardWrapsTransform(tree, s) ==
    LET src == Content(tree, s) IN
    IF Len(src) = 0 THEN Kept(tree)
    ELSE LET paraSpans == ParagraphSpans(src) IN
         IF Len(paraSpans) = 0 THEN Kept(tree)
         ELSE Kept(SetContent(tree, s, applyJoins(src, paraSpans, 0)))

\* the leading blank lines of lines, as the loop of the source counts them
RECURSIVE CountBlankLines(_)
CountBlankLines(lines) ==
    IF lines # << >> /\ TrimSpace(Head(lines)) = << >>
    THEN 1 + CountBlankLines(Tail(lines)) ELSE 0

\* PruneLeadingBlankLinesTransform(maxKeep)
PruneLeadingBlankLinesTransform(maxKeep, tree, s) ==
    LET content == Content(tree, s) IN
    IF content = << >> THEN Kept(tree)
    ELSE LET lines == Split(content)
             leadingBlanks == CountBlankLines(lines)
             toRemove == leadingBlanks - maxKeep
         IN IF toRemove <= 0 THEN Kept(tree)
            ELSE Kept(SetContent(tree, s,
                        JoinLines(SubSeq(lines, toRemove + 1, Len(lines)))))

\* PruneTrailingBlankLinesTransform(maxKeep)
PruneTrailingBlankLinesTransform(maxKeep, tree, s) ==
    LET content == Content(tree, s) IN
    IF content = << >> THEN Kept(tree)
    ELSE LET lines == Split(content)
             trailingBlanks == CountBlankLines(Reverse(lines))
             toRemove == trailingBlanks - maxKeep
         IN IF toRemove <= 0 THEN Kept(tree)
            ELSE Kept(SetContent(tree, s,
                        JoinLines(SubSeq(lines, 1, Len(lines) - toRemove))))

\* the longest match of (?:\n[ \t]*)* at index i: its end and its repeats
RECURSIVE matchRuns(_, _, _)
matchRuns(b, i, count) ==
    IF i <= Len(b) /\ b[i] = NL
    THEN matchRuns(b, SkipBlanks(b, i + 1), count + 1)
    ELSE [end |-> i, count |-> count]

\* re.ReplaceAll(segment, "\n\n") for (?m)(?:\n[ \t]*){3,}
RECURSIVE collapseLoop(_, _, _)
collapseLoop(b, i, out) ==
    IF i > Len(b) THEN out
    ELSE LET m == matchRuns(b, i, 0) IN
         IF m.count >= 3 THEN collapseLoop(b, m.end, out \o <<NL, NL>>)
         ELSE collapseLoop(b, i + 1, Append(out, b[i]))

\* CollapseBlankLinesTransform / collapseBlankLinesImpl: without code
\* blocks the one editable range is the whole content
CollapseBlankLinesTransform(tree, s) ==
    LET src == Content(tree, s) IN
    IF Len(src) = 0 THEN Kept(tree)
    ELSE Kept(SetContent(tree, s, collapseLoop(src, 1, << >>)))

\* computePath: the titles from the root down to s, joined by " / "
RECURSIVE PathTitles(_, _)
PathTitles(tree, s) ==
    IF s = 0 THEN << >>
    ELSE Append(PathTitles(tree, tree.parent[s]), tree.title[s])

computePath(tree, s) == JoinSep(PathTitles(tree, s), <<" ", "/", " ">>)

\* HeadingPathCommentTransform
HeadingPathCommentTransform(tree, s) ==
    LET content == Content(tree, s) IN
    IF TrimSpace(content) = << >> THEN Kept(tree)
    ELSE LET path == computePath(tree, s)
             comment == <<"<!--", " ", "path:", " ">> \o path \o <<" ", "-->">>
             expectedComment == comment \o <<NL>>
             lines == Split(content)
             firstLine == lines[1]
         IN IF HasPrefix(firstLine, <<"<!--", " ", "path:">>)
            THEN IF firstLine = comment THEN Kept(tree)
                 ELSE Kept(SetContent(tree, s,
                             JoinLines([lines EXCEPT ![1] = comment])))
            ELSE Kept(SetContent(tree, s, expectedComment \o content))

\* the first line (index from 1) that is neither blank nor an HTML
\* comment; 0 when there is none (-1 in the source)
FirstNonComment(lines) ==
    LET ok(i) == LET trimmed == TrimSpace(lines[i]) IN
                 trimmed # << >> /\ ~HasPrefix(trimmed, <<"<!--">>)
    IN IF \E i \in 1..Len(lines) : ok(i)
       THEN CHOOSE i \in 1..Len(lines) : ok(i) /\ \A j \in 1..(i - 1) : ~ok(j)
       ELSE 0

\* HeadingPrefixTransform
HeadingPrefixTransform(tree, s) ==
    IF tree.level[s] = 0 THEN Kept(tree)
    ELSE LET expectedHeading == Repeat("#", tree.level[s]) \o <<" ">> \o tree.title[s]
             content == Content(tree, s)
             lines == Split(content)
             firstNonCommentIdx == FirstNonComment(lines)
             headingToInsert == expectedHeading \o <<NL, NL>>
         IN IF firstNonCommentIdx > 0
               /\ TrimSpace(lines[firstNonCommentIdx]) = expectedHeading
            THEN Kept(tree)
            ELSE IF firstNonCommentIdx = 0
            THEN Kept(SetContent(tree, s, content \o headingToInsert))
            ELSE LET b == JoinLines(SubSeq(lines, 1, firstNonCommentIdx - 1))
                     before == IF b # << >> THEN b \o <<NL>> ELSE b
                     after == JoinLines(SubSeq(lines, firstNonCommentIdx, Len(lines)))
                 IN Kept(SetContent(tree, s, before \o headingToInsert \o after))

\* the transforms of the tests of pkg/section: addPrefix, addSuffix and
\* failOnChild1 (an error on the node of a given title)
addPrefix(p, tree, s) == Kept(SetContent(tree, s, p \o Content(tree, s)))

addSuffix(p, tree, s) == Kept(SetContent(tree, s, Content(tree, s) \o p))

failOnTitle(title, tree, s) ==
    IF tree.title[s] = title
    THEN [tree |-> tree, err |-> "transform failed"]
    ELSE Kept(tree)

\* the call t(ctx, fm, s) of a section.Transform value
CallSectionTransform(t, tree, s) ==
    CASE t.kind = "NormalizeNewlines" -> NormalizeNewlinesTransform(tree, s)
      [] t.kind = "NormalizeHardWraps" -> NormalizeHardWrapsTransform(tree, s)
      [] t.kind = "PruneLeadingBlankLines" ->
             PruneLeadingBlankLinesTransform(t.n, tree, s)
      [] t.kind = "PruneTrailingBlankLines" ->
             PruneTrailingBlankLinesTransform(t.n, tree, s)
      [] t.kind = "CollapseBlankLines" -> CollapseBlankLinesTransform(tree, s)
      [] t.kind = "HeadingPrefix" -> HeadingPrefixTransform(tree, s)
      [] t.kind = "HeadingPathComment" -> HeadingPathCommentTransform(tree, s)
      [] t.kind = "addPrefix" -> addPrefix(t.arg, tree, s)
      [] t.kind = "addSuffix" -> addSuffix(t.arg, tree, s)
      [] t.kind = "failOnTitle" -> failOnTitle(t.arg, tree, s)

SectionTransform(kind, arg, n) == [kind |-> kind, arg |-> arg, n |-> n]

----------------------------------------------------------------------------
(***************************************************************************)
(* pkg/frontmatter.  A FrontMatter is [nil, m]: nil tells the nil map, m   *)
(* is the map, a function from keys to values; a value is [t, s, n]: its   *)
(* dynamic type t, its text s (strings) and its number n (int, float64,    *)
(* and 1 or 0 for a bool).                                                 *)
(***************************************************************************)
StringValue(text) == [t |-> "string", s |-> text, n |-> 0]

BoolValue(b) == [t |-> "bool", s |-> << >>, n |-> IF b THEN 1 ELSE 0]

IntValue(i) == [t |-> "int", s |-> << >>, n |-> i]

\* the value of no key (the nil interface)
NilValue == [t |-> "nil", s |-> << >>, n |-> 0]

EmptyFrontMatter == [nil |-> FALSE, m |-> << >>]

NilFrontMatter == [nil |-> TRUE, m |-> << >>]

HasKey(fm, key) == key \in DOMAIN fm.m

\* fm[key]: the zero value for a missing key
Lookup(fm, key) == IF HasKey(fm, key) THEN fm.m[key] ELSE NilValue

\* fm[key] = value
Store(fm, key, value) ==
    [fm EXCEPT !.m = [k \in DOMAIN fm.m \cup {key} |->
                         IF k = key THEN value ELSE fm.m[k]]]

\* deepCopyJSON: json.Marshal then json.Unmarshal into any; a number comes
\* back as a float64, a string and a bool as they were
deepCopyJSON(v) == IF v.t = "int" THEN [v EXCEPT !.t = "float64"] ELSE v

\* FrontMatter.Clone
Clone(fm) ==
    IF fm.nil THEN EmptyFrontMatter
    ELSE [nil |-> FALSE, m |-> [k \in DOMAIN fm.m |-> deepCopyJSON(fm.m[k])]]

\* FrontMatter.View: the read-only view over a snapshot
View(fm) == Clone(fm)

\* roFrontMatter.Get: [v, ok]
Get(view, key) == [v |-> deepCopyJSON(Lookup(view, key)), ok |-> HasKey(view, key)]

\* roFrontMatter.AsMap
AsMap(view) == Clone(view)

(***************************************************************************)
(* Metadata transforms: a value is [kind, key]; called on a context and a  *)
(* FrontMatter it returns [fm, err] (the map is changed in place in the    *)
(* source: fm is the map after the call).                                  *)
(***************************************************************************)
FmTransform(kind, key) == [kind |-> kind, key |-> key]

\* builtin.InjectFilePath(key)
InjectFilePath(key, ctx, frontmatter) ==
    LET k == IF key = "" THEN "file_path" ELSE key IN
    IF frontmatter.nil
    THEN [fm |-> frontmatter, err |-> "InjectFilePath: frontmatter cannot be nil"]
    ELSE IF HasKey(frontmatter, k)
    THEN [fm |-> frontmatter, err |-> NoErr]
    ELSE IF ~ctx.hasFileInfo \/ ctx.fileInfo.Path = << >>
    THEN [fm |-> frontmatter, err |-> "InjectFilePath: file path not found in context"]
    ELSE [fm |-> Store(frontmatter, k, StringValue(ctx.fileInfo.Path)), err |-> NoErr]

\* builtin.RequireSummary()
RequireSummary(frontmatter) ==
    IF frontmatter.nil
    THEN [fm |-> frontmatter, err |-> "RequireSummary: frontmatter cannot be nil"]
    ELSE IF ~HasKey(frontmatter, "summary")
    THEN [fm |-> frontmatter, err |-> "RequireSummary: missing summary"]
    ELSE LET raw == frontmatter.m["summary"] IN
         IF raw.t # "string"
         THEN [fm |-> frontmatter, err |-> "RequireSummary: summary must be a string"]
         ELSE IF TrimSpace(raw.s) = << >>
         THEN [fm |-> frontmatter, err |-> "RequireSummary: summary cannot be empty"]
         ELSE [fm |-> frontmatter, err |-> NoErr]

\* incrementCounter and doubleCounter of TestApplyTransform_OrderMatters
incrementCounter(frontmatter) ==
    LET counter == Lookup(frontmatter, "counter") IN
    IF counter.t = "int"
    THEN [fm |-> Store(frontmatter, "counter", IntValue(counter.n + 1)), err |-> NoErr]
    ELSE [fm |-> frontmatter, err |-> NoErr]

doubleCounter(frontmatter) ==
    LET counter == Lookup(frontmatter, "counter") IN
    IF counter.t = "int"
    THEN [fm |-> Store(frontmatter, "counter", IntValue(counter.n * 2)), err |-> NoErr]
    ELSE [fm |-> frontmatter, err |-> NoErr]

\* errorTransform of TestPush_TransformError
errorTransform(frontmatter) == [fm |-> frontmatter, err |-> "transform error"]

\* a caller's transform that sets do_not_embed to the boolean true, and
\* one that deletes the key
markDoNotEmbed(frontmatter) ==
    IF frontmatter.nil
    THEN [fm |-> frontmatter, err |-> "markDoNotEmbed: frontmatter cannot be nil"]
    ELSE [fm |-> Store(frontmatter, "do_not_embed", BoolValue(TRUE)), err |-> NoErr]

unmarkDoNotEmbed(frontmatter) ==
    IF frontmatter.nil
    THEN [fm |-> frontmatter, err |-> NoErr]
    ELSE [fm |-> [frontmatter EXCEPT
                    !.m = [k \in DOMAIN frontmatter.m \ {"do_not_embed"} |->
                              frontmatter.m[k]]],
          err |-> NoErr]

\* the call transform(ctx, frontmatter) of a frontmatter.Transform value
CallFmTransform(t, ctx, frontmatter) ==
    CASE t.kind = "InjectFilePath" -> InjectFilePath(t.key, ctx, frontmatter)
      [] t.kind = "RequireSummary" -> RequireSummary(frontmatter)
      [] t.kind = "incrementCounter" -> incrementCounter(frontmatter)
      [] t.kind = "doubleCounter" -> doubleCounter(frontmatter)
      [] t.kind = "errorTransform" -> errorTransform(frontmatter)
      [] t.kind = "markDoNotEmbed" -> markDoNotEmbed(frontmatter)
      [] t.kind = "unmarkDoNotEmbed" -> unmarkDoNotEmbed(frontmatter)

\* frontmatter.ApplyTransform(ctx, fm, ts...)
RECURSIVE ApplyFmTransform(_, _, _)
ApplyFmTransform(ctx, frontmatter, ts) ==
    IF ts = << >> THEN [fm |-> frontmatter, err |-> NoErr]
    ELSE LET r == CallFmTransform(Head(ts), ctx, frontmatter) IN
         IF r.err # NoErr THEN r
         ELSE ApplyFmTransform(ctx, r.fm, Tail(ts))

----------------------------------------------------------------------------
(***************************************************************************)
(* Chunk headers.  A generator value is [kind, fields, text]; called on a  *)
(* view it returns [text, err].                                            *)
(***************************************************************************)
Digit == <<"0", "1", "2", "3", "4", "5", "6", "7", "8", "9">>

\* the decimal digits of a natural number
RECURSIVE Decimal(_)
Decimal(i) ==
    IF i < Len(Digit) THEN <<Digit[i + 1]>>
    ELSE Append(Decimal(i \div Len(Digit)), Digit[(i % Len(Digit)) + 1])

\* isEmpty of the key-value header
isEmpty(v) ==
    CASE v.t = "nil" -> TRUE
      [] v.t = "string" -> TrimSpace(v.s) = << >>
      [] OTHER -> FALSE

\* valueString of the key-value header
valueString(v) ==
    CASE v.t = "string" -> v.s
      [] v.t = "bool" -> IF v.n = 1 THEN <<"true">> ELSE <<"false">>
      [] OTHER -> Decimal(v.n)

FieldSpec(path, label, required) ==
    [Path |-> path, Label |-> label, Required |-> required]

\* the loop over the fields of the closure KeyValueHeader returns; b is the
\* strings.Builder
RECURSIVE kvLoop(_, _, _)
kvLoop(fields, view, b) ==
    IF fields = << >> THEN [text |-> b \o <<NL>>, err |-> NoErr]
    ELSE LET f == Head(fields)
             g == Get(view, f.Path)
             empty == isEmpty(g.v)
         IN IF (~g.ok \/ empty) /\ f.Required
            THEN [text |-> << >>, err |-> "required field missing or empty"]
            ELSE IF ~g.ok \/ empty THEN kvLoop(Tail(fields), view, b)
            ELSE kvLoop(Tail(fields), view,
                        b \o TrimSpace(f.Label) \o <<":", " ">>
                          \o valueString(g.v) \o <<NL>>)

KeyValueHeader(fields, view) == kvLoop(fields, view, << >>)

\* a generator returning a fixed text, and one that fails (the closures the
\* tests pass to WithChunkHeader)
fixedHeader(text) == [text |-> text, err |-> NoErr]

failingHeader == [text |-> << >>, err |-> "header error"]

\* the call c.config.headerGenerator(ctx, view)
CallHeaderGenerator(gen, view) ==
    CASE gen.kind = "KeyValueHeader" -> KeyValueHeader(gen.fields, view)
      [] gen.kind = "fixed" -> fixedHeader(gen.text)
      [] gen.kind = "failing" -> failingHeader

----------------------------------------------------------------------------
(***************************************************************************)
(* pkg/tokenizer: Tokenize.  A counter is a record [kind, ...]; Count is   *)
(* its TokenCounter: a record [n, err].                                    *)
(***************************************************************************)
\* countWords: the maximal runs of symbols that are not white space
RECURSIVE countLoop(_, _, _)
countLoop(text, inWord, words) ==
    IF text = << >> THEN (IF inWord THEN words + 1 ELSE words)
    ELSE IF Head(text) \in Space
    THEN countLoop(Tail(text), FALSE, IF inWord THEN words + 1 ELSE words)
    ELSE countLoop(Tail(text), TRUE, words)

countWords(text) == IF text = << >> THEN 0 ELSE countLoop(text, FALSE, 0)

\* tokenizer.Count / the TokenCounter closure of the tokenizer in use.
\*   "words":  NewWordCountTokenizer: int(float64(words) / wordsPerToken),
\*             for a whole number of words per token
\*   "table":  the count of each text is looked up (tok[text]): a counter
\*             of arbitrary counts over the texts of a tree
\*   "faulty": a table counter failing, with the error errs[text], on the
\*             texts whose errs is not nil
\*   "failon": a word counter failing on every text holding the symbol bad
Count(counter, text) ==
    CASE counter.kind = "words" ->
            [n |-> countWords(text) \div counter.per, err |-> NoErr]
      [] counter.kind = "table" -> [n |-> counter.tok[text], err |-> NoErr]
      [] counter.kind = "faulty" ->
            IF counter.errs[text] # NoErr
            THEN [n |-> 0, err |-> counter.errs[text]]
            ELSE [n |-> counter.tok[text], err |-> NoErr]
      [] counter.kind = "failon" ->
            IF \E k \in 1..Len(text) : text[k] = counter.bad
            THEN [n |-> 0, err |-> "tokenizer error"]
            ELSE [n |-> countWords(text) \div counter.per, err |-> NoErr]

\* The nil *TokenizedSection (its getters return zero values).
NilSection ==
    [Section |-> 0, ContentTokens |-> 0, SubtreeTokens |-> 0, Children |-> << >>]

\* tokenizer.Tokenize: visit(node) returns [t, err, counted]; t is the
\* TokenizedSection (nested, as in the source) or nil on error; counted
\* lists the nodes the counter was called on, in call order.
RECURSIVE visit(_, _, _)
RECURSIVE visitKids(_, _, _, _, _, _)
\* the range loop that leaves the children's subtree tokens out
visitKidsNoSum(counter, tree, kids, tkids, subtreeTokens, counted) ==
    IF kids = << >>
    THEN [tkids |-> tkids, subtreeTokens |-> subtreeTokens, err |-> NoErr,
          counted |-> counted]
    ELSE LET r == visit(counter, tree, Head(kids)) IN
         IF r.err # NoErr
         THEN [tkids |-> << >>, subtreeTokens |-> 0, err |-> r.err,
               counted |-> counted \o r.counted]
         ELSE visitKids(counter, tree, Tail(kids), Append(tkids, r.t),
                        subtreeTokens, counted \o r.counted)

\* the range loop that goes on to the next child after an error
visitKidsPastError(counter, tree, kids, tkids, subtreeTokens, counted) ==
    IF kids = << >>
    THEN [tkids |-> tkids, subtreeTokens |-> subtreeTokens, err |-> NoErr,
          counted |-> counted]
    ELSE LET r == visit(counter, tree, Head(kids)) IN
         visitKids(counter, tree, Tail(kids), Append(tkids, r.t),
                   subtreeTokens + r.t.SubtreeTokens, counted \o r.counted)

\* the range loop over kids of visit: tkids and subtreeTokens accumulate
visitKids(counter, tree, kids, tkids, subtreeTokens, counted) ==
    IF kids = << >>
    THEN [tkids |-> tkids, subtreeTokens |-> subtreeTokens, err |-> NoErr,
          counted |-> counted]
    ELSE LET r == visit(counter, tree, Head(kids)) IN
         IF r.err # NoErr
         THEN [tkids |-> << >>, subtreeTokens |-> 0, err |-> r.err,
               counted |-> counted \o r.counted]
         ELSE visitKids(counter, tree, Tail(kids), Append(tkids, r.t),
                        subtreeTokens + r.t.SubtreeTokens, counted \o r.counted)

visit(counter, tree, node) ==
    LET c == Count(counter, Content(tree, node)) IN
    IF c.err # NoErr
    THEN [t |-> NilSection, err |-> c.err, counted |-> <<node>>]
    ELSE LET k == visitKids(counter, tree, Children(tree, node), << >>, c.n,
                            <<node>>) IN
         IF k.err # NoErr
         THEN [t |-> NilSection, err |-> k.err, counted |-> k.counted]
         ELSE [t |-> [Section |-> node,
                      ContentTokens |-> c.n,
                      SubtreeTokens |-> k.subtreeTokens,
                      Children |-> k.tkids],
               err |-> NoErr, counted |-> k.counted]

Tokenize(counter, tree) == visit(counter, tree, 1)

----------------------------------------------------------------------------
(***************************************************************************)
(* pkg/chunker: the chunkBuilder.                                          *)
(***************************************************************************)

newChunkBuilder(filePath, fileTitle, frontBlock, frontTokens, bodyBudget) ==
    [filePath |-> filePath, fileTitle |-> fileTitle,
     frontBlock |-> frontBlock, frontTokens |-> frontTokens,
     bodyBudget |-> bodyBudget,
     parts |-> << >>, tokens |-> 0, index |-> 1]

\* flush that forgets to advance the chunk index
flushSameIndex(b) ==
    IF Len(b.parts) = 0
    THEN [b |-> b, chunk |-> << >>, from |-> << >>]
    ELSE [b |-> [b EXCEPT !.parts = << >>, !.tokens = 0],
          chunk |-> << [FilePath |-> b.filePath, FileTitle |-> b.fileTitle,
                        ChunkIndex |-> b.index, Text |-> b.frontBlock \o Join(b.parts),
                        Tokens |-> b.frontTokens + b.tokens] >>,
          from |-> << [via |-> "flush", parts |-> b.parts] >>]

\* chunkBuilder.flush: [b, chunk]; chunk is << >> for the nil result and
\* <<c>> for a chunk.  "from" records, beside each chunk, which branch built
\* it and from which parts (the value of b.parts the chunk was joined from).
\* flush that makes a chunk of an accumulator without fragments too
flushAlways(b) ==
    LET body == Join(b.parts)
        text == b.frontBlock \o body
        tokens == b.frontTokens + b.tokens
        chunkIndex == b.index
    IN [b |-> [b EXCEPT !.index = b.index + 1, !.parts = << >>, !.tokens = 0],
        chunk |-> << [FilePath |-> b.filePath, FileTitle |-> b.fileTitle,
                      ChunkIndex |-> chunkIndex, Text |-> text,
                      Tokens |-> tokens] >>,
        from |-> << [via |-> "flush", parts |-> b.parts] >>]

flush(b) ==
    IF Len(b.parts) = 0
    THEN [b |-> b, chunk |-> << >>, from |-> << >>]
    ELSE LET body == Join(b.parts)
             text == b.frontBlock \o body
             tokens == b.frontTokens + b.tokens
             chunkIndex == b.index
         IN [b |-> [b EXCEPT !.index = b.index + 1, !.parts = << >>, !.tokens = 0],
             chunk |-> << [FilePath |-> b.filePath, FileTitle |-> b.fileTitle,
                           ChunkIndex |-> chunkIndex, Text |-> text,
                           Tokens |-> tokens] >>,
             from |-> << [via |-> "flush", parts |-> b.parts] >>]

\* appendUnit that never flushes before a unit that fits the budget by
\* itself
appendUnitNoFlush(b, unitText, unitTokens) ==
    IF unitTokens <= 0
    THEN [b |-> b, chunks |-> << >>, from |-> << >>]
    ELSE IF unitTokens > b.bodyBudget
    THEN LET f == flush(b)
             b1 == f.b
             jumbo == [FilePath |-> b1.filePath, FileTitle |-> b1.fileTitle,
                       ChunkIndex |-> b1.index,
                       Text |-> b1.frontBlock \o unitText,
                       Tokens |-> b1.frontTokens + unitTokens]
         IN [b |-> [b1 EXCEPT !.index = b1.index + 1],
             chunks |-> f.chunk \o <<jumbo>>,
             from |-> f.from \o << [via |-> "jumbo", parts |-> <<unitText>>] >>]
    ELSE [b |-> [b EXCEPT !.parts = Append(b.parts, unitText),
                          !.tokens = b.tokens + unitTokens],
          chunks |-> << >>,
          from |-> << >>]

\* chunkBuilder.appendUnit: [b, chunks, from].
\* appendUnit that puts a jumbo unit in the accumulator, after a flush
appendUnitJumboKept(b, unitText, unitTokens) ==
    IF unitTokens <= 0
    THEN [b |-> b, chunks |-> << >>, from |-> << >>]
    ELSE LET f == IF b.tokens + unitTokens > b.bodyBudget
                  THEN flush(b)
                  ELSE [b |-> b, chunk |-> << >>, from |-> << >>]
         IN [b |-> [f.b EXCEPT !.parts = Append(f.b.parts, unitText),
                               !.tokens = f.b.tokens + unitTokens],
             chunks |-> f.chunk,
             from |-> f.from]

\* appendUnit that flushes when the unit fills the budget to the last token
appendUnitEarlyFlush(b, unitText, unitTokens) ==
    IF unitTokens <= 0
    THEN [b |-> b, chunks |-> << >>, from |-> << >>]
    ELSE IF unitTokens > b.bodyBudget
    THEN LET f == flush(b)
             b1 == f.b
             jumbo == [FilePath |-> b1.filePath, FileTitle |-> b1.fileTitle,
                       ChunkIndex |-> b1.index,
                       Text |-> b1.frontBlock \o unitText,
                       Tokens |-> b1.frontTokens + unitTokens]
         IN [b |-> [b1 EXCEPT !.index = b1.index + 1],
             chunks |-> f.chunk \o <<jumbo>>,
             from |-> f.from \o << [via |-> "jumbo", parts |-> <<unitText>>] >>]
    ELSE LET f == IF b.tokens + unitTokens >= b.bodyBudget
                  THEN flush(b)
                  ELSE [b |-> b, chunk |-> << >>, from |-> << >>]
         IN [b |-> [f.b EXCEPT !.parts = Append(f.b.parts, unitText),
                               !.tokens = f.b.tokens + unitTokens],
             chunks |-> f.chunk,
             from |-> f.from]

\* appendUnit without the check for a unit without tokens
appendUnitCountsNothing(b, unitText, unitTokens) ==
    IF unitTokens > b.bodyBudget
    THEN LET f == flush(b)
             b1 == f.b
             jumbo == [FilePath |-> b1.filePath, FileTitle |-> b1.fileTitle,
                       ChunkIndex |-> b1.index,
                       Text |-> b1.frontBlock \o unitText,
                       Tokens |-> b1.frontTokens + unitTokens]
         IN [b |-> [b1 EXCEPT !.index = b1.index + 1],
             chunks |-> f.chunk \o <<jumbo>>,
             from |-> f.from \o << [via |-> "jumbo", parts |-> <<unitText>>] >>]
    ELSE LET f == IF b.tokens + unitTokens > b.bodyBudget
                  THEN flush(b)
                  ELSE [b |-> b, chunk |-> << >>, from |-> << >>]
         IN [b |-> [f.b EXCEPT !.parts = Append(f.b.parts, unitText),
                               !.tokens = f.b.tokens + unitTokens],
             chunks |-> f.chunk,
             from |-> f.from]

appendUnit(b, unitText, unitTokens) ==
    IF unitTokens <= 0
    THEN [b |-> b, chunks |-> << >>, from |-> << >>]
    ELSE IF unitTokens > b.bodyBudget
    THEN \* Case 1: jumbo unit
         LET f == flush(b)
             b1 == f.b
             jumbo == [FilePath |-> b1.filePath, FileTitle |-> b1.fileTitle,
                       ChunkIndex |-> b1.index,
                       Text |-> b1.frontBlock \o unitText,
                       Tokens |-> b1.frontTokens + unitTokens]
         IN [b |-> [b1 EXCEPT !.index = b1.index + 1],
             chunks |-> f.chunk \o <<jumbo>>,
             from |-> f.from \o << [via |-> "jumbo", parts |-> <<unitText>>] >>]
    ELSE \* Case 2: normal unit
         LET needTokens == b.tokens + unitTokens
             f == IF needTokens > b.bodyBudget
                  THEN flush(b)
                  ELSE [b |-> b, chunk |-> << >>, from |-> << >>]
             b1 == f.b
         IN [b |-> [b1 EXCEPT !.parts = Append(b1.parts, unitText),
                              !.tokens = b1.tokens + unitTokens],
             chunks |-> f.chunk,
             from |-> f.from]

\* traverseUnits: the explicit-stack loop; stack is a sequence whose last
\* element is the top.
RECURSIVE traverseLoop(_, _, _)
\* the loop pushing the children in forward order, so that the last child
\* is popped first
traverseLoopForward(tree, stack, us) ==
    IF Len(stack) = 0 THEN us
    ELSE LET n == Len(stack)
             node == stack[n]
             rest == SubSeq(stack, 1, n - 1)
             us1 == IF node.ContentTokens > 0
                    THEN Append(us, [text |-> Content(tree, node.Section),
                                     tokens |-> node.ContentTokens])
                    ELSE us
         IN traverseLoop(tree, rest \o node.Children, us1)

traverseLoop(tree, stack, us) ==
    IF Len(stack) = 0 THEN us
    ELSE LET n == Len(stack)
             node == stack[n]
             rest == SubSeq(stack, 1, n - 1)
             us1 == IF node.ContentTokens > 0
                    THEN Append(us, [text |-> Content(tree, node.Section),
                                     tokens |-> node.ContentTokens])
                    ELSE us
         IN traverseLoop(tree, rest \o Reverse(node.Children), us1)

traverseUnits(tree, root) ==
    IF root = NilSection THEN << >> ELSE traverseLoop(tree, <<root>>, << >>)

\* chunkDocument as a function: the loop over the units, then the final
\* flush.  [chunks, from]
RECURSIVE appendAll(_, _, _, _)
appendAll(b, us, chunks, from) ==
    IF us = << >>
    THEN LET f == flush(b) IN
         [chunks |-> chunks \o f.chunk, from |-> from \o f.from]
    ELSE LET r == appendUnit(b, Head(us).text, Head(us).tokens) IN
         appendAll(r.b, Tail(us), chunks \o r.chunks, from \o r.from)

chunkDocument(p) ==
    appendAll(newChunkBuilder(p.filePath, p.fileTitle, p.frontBlock,
                              p.frontTokens, p.bodyBudget),
              traverseUnits(p.tree, p.root), << >>, << >>)
----------------------------------------------------------------------------
(***************************************************************************)
(* The pipeline of one Push.  Every call Push makes to a collaborator (the *)
(* parser, a metadata transform, a tree transform on a node, the header    *)
(* generator, the counter, Tokenize) is appended to a log of events        *)
(* [op, i, node, fm]: i is the index (from 1) of the transform in the      *)
(* configured list, node the node it runs on, fm the map a metadata        *)
(* transform is handed.                                                    *)
(*                                                                         *)
(* A context is [cancels, at, hasFileInfo, fileInfo]: when cancels holds,  *)
(* it is cancelled (by its owner, concurrently) once at calls have been    *)
(* made, so that ctx.Err() then returns an error.                          *)
(***************************************************************************)
Event(op, i, node, frontmatter) ==
    [op |-> op, i |-> i, node |-> node, fm |-> frontmatter]

\* ctx.Err() when the calls of log have been made
ctxErr(ctx, log) ==
    IF ctx.cancels /\ Len(log) >= ctx.at THEN "context canceled" ELSE NoErr

\* cctx.WithFileInfo
WithFileInfo(ctx, fi) == [ctx EXCEPT !.hasFileInfo = TRUE, !.fileInfo = fi]

\* walk of pkg/section: the transforms ts in declared order on node s, then
\* the children of s; [tree, err, log].  first is the index in the
\* configured list of the first transform of ts.
RECURSIVE walk(_, _, _, _, _, _)
RECURSIVE walkTransforms(_, _, _, _, _, _, _)
RECURSIVE walkChildren(_, _, _, _, _, _)
\* the loop going on after a transform that returned an error
walkTransformedOn(r, view, s, ts, k, first, log) ==
    walkTransforms(view, r.tree, s, ts, k + 1, first, log)

\* "if err := t(ctx, fm, s); err != nil { return err }" and the rest of the
\* loop, r being what the call of the k-th transform returned
walkTransformed(r, view, s, ts, k, first, log) ==
    IF r.err # NoErr THEN [tree |-> r.tree, err |-> r.err, log |-> log]
    ELSE walkTransforms(view, r.tree, s, ts, k + 1, first, log)

\* "for _, t := range ts" of walk, from the k-th transform on
walkTransforms(view, tree, s, ts, k, first, log) ==
    IF k > Len(ts) THEN [tree |-> tree, err |-> NoErr, log |-> log]
    ELSE walkTransformed(CallSectionTransform(ts[k], tree, s), view, s, ts, k, first,
                         Append(log, Event("section", first + k - 1, s, view)))

\* "if err := walk(ctx, fm, c, ts); err != nil { return err }" and the
\* rest of the loop, r being what the walk of the child returned
walkedChild(r, view, kids, ts, first) ==
    IF r.err # NoErr THEN r
    ELSE walkChildren(view, r.tree, Tail(kids), ts, first, r.log)

\* "for _, c := range s.Children()" of walk
walkChildren(view, tree, kids, ts, first, log) ==
    IF kids = << >> THEN [tree |-> tree, err |-> NoErr, log |-> log]
    ELSE walkedChild(walk(view, tree, Head(kids), ts, first, log),
                     view, kids, ts, first)

\* the transforms on a node once its children are done
walkNodeLast(r, view, s, ts, first) ==
    IF r.err # NoErr THEN r
    ELSE walkTransforms(view, r.tree, s, ts, 1, first, r.log)

\* the second half of walk, r being what the loop over ts returned
walkRecurse(r, view, s, ts, first) ==
    IF r.err # NoErr THEN r
    ELSE walkChildren(view, r.tree, Children(r.tree, s), ts, first, r.log)

\* walk that takes the children of a node before the node
walkChildrenFirst(view, tree, s, ts, first, log) ==
    walkNodeLast(walkChildren(view, tree, Children(tree, s), ts, first, log),
                 view, s, ts, first)

walk(view, tree, s, ts, first, log) ==
    walkRecurse(walkTransforms(view, tree, s, ts, 1, first, log), view, s, ts, first)

\* section.ApplyTransform(ctx, fm, root, ts...)
ApplyTransform(frontmatter, tree, ts, first, log) ==
    walk(View(frontmatter), tree, 1, ts, first, log)

\* the call c.config.parser(ctx, markdown): [root, frontmatter, err].  A
\* parser value is a table of results by document text (WithParser).
Parse(parser, markdown) == parser.docs[markdown]

----------------------------------------------------------------------------
(***************************************************************************)
(* pkg/chunker: New.  An option is [name, value]; a ratio is the decimal   *)
(* literal [num, den] of the source text of the caller.                    *)
(***************************************************************************)
Option(name, value) == [name |-> name, value |-> value]

\* the value of a field of options left nil
NilOption == [kind |-> "nil"]

\* the zero chunker New returns beside an error
NilChunker == [config |-> NilOption, effectiveBudget |-> 0, chunks |-> << >>]

\* the cfg New starts from
DefaultOptions ==
    [chunkTokenBudget |-> 0,
     reservedOverheadRatio |-> [num |-> 1, den |-> 10],
     tokenizer |-> NilOption,
     parser |-> NilOption,
     headerGenerator |-> NilOption,
     fmTransforms |-> << FmTransform("InjectFilePath", "file_path") >>,
     sectionTransforms |-> <<
         SectionTransform("NormalizeNewlines", << >>, 0),
         SectionTransform("NormalizeHardWraps", << >>, 0),
         SectionTransform("PruneLeadingBlankLines", << >>, 0),
         SectionTransform("PruneTrailingBlankLines", << >>, 0),
         SectionTransform("CollapseBlankLines", << >>, 0),
         SectionTransform("HeadingPrefix", << >>, 0),
         SectionTransform("HeadingPathComment", << >>, 0) >>]

\* opt(cfg) for the options of options.go
ApplyOption(cfg, opt) ==
    CASE opt.name = "WithChunkTokenBudget" ->
             [cfg EXCEPT !.chunkTokenBudget = opt.value]
      [] opt.name = "WithReservedOverheadRatio" ->
             [cfg EXCEPT !.reservedOverheadRatio = opt.value]
      [] opt.name = "WithTokenizer" -> [cfg EXCEPT !.tokenizer = opt.value]
      [] opt.name = "WithParser" -> [cfg EXCEPT !.parser = opt.value]
      [] opt.name = "WithChunkHeader" -> [cfg EXCEPT !.headerGenerator = opt.value]
      [] opt.name = "WithFrontMatterTransform" ->
             [cfg EXCEPT !.fmTransforms = Append(@, opt.value)]
      [] opt.name = "WithFrontMatterTransforms" ->
             [cfg EXCEPT !.fmTransforms = @ \o opt.value]
      [] opt.name = "WithSectionTransform" ->
             [cfg EXCEPT !.sectionTransforms = Append(@, opt.value)]
      [] opt.name = "WithSectionTransforms" ->
             [cfg EXCEPT !.sectionTransforms = @ \o opt.value]

RECURSIVE ApplyOptions(_, _)
ApplyOptions(cfg, opts) ==
    IF opts = << >> THEN cfg
    ELSE ApplyOptions(ApplyOption(cfg, Head(opts)), Tail(opts))

\* x >= 1.0 for a float64 x >= 0
AtLeastOne(x) == x.m # << >> /\ BitLen(x.m) + x.e >= 1

\* New(opts...): [c, err].  The defaults New puts in place of a nil
\* tokenizer, parser and header generator (tiktoken, the goldmark parser,
\* the YAML header) are values this model does not call: every
\* configuration it draws sets the three.
New(opts) ==
    LET cfg == ApplyOptions(DefaultOptions, opts)
        r == cfg.reservedOverheadRatio
    IN IF cfg.chunkTokenBudget <= 0
       THEN [c |-> NilChunker, err |-> "WithChunkTokenBudget is required and must be > 0"]
       ELSE IF r.num < 0 \/ AtLeastOne(Float64OfRatio(r.num, r.den))
       THEN [c |-> NilChunker, err |-> "WithReservedOverheadRatio must be >= 0 and < 1"]
       ELSE LET cfg1 == [cfg EXCEPT
                           !.tokenizer = IF @ = NilOption
                                         THEN [kind |-> "tiktoken"] ELSE @,
                           !.parser = IF @ = NilOption
                                      THEN [kind |-> "DefaultParser"] ELSE @,
                           !.headerGenerator = IF @ = NilOption
                                               THEN [kind |-> "defaultHeaderGenerator"]
                                               ELSE @]
                effectiveBudget ==
                    TruncToInt(TimesInt(cfg.chunkTokenBudget,
                                        OneMinus(Float64OfRatio(r.num, r.den))))
            IN [c |-> [config |-> cfg1,
                       effectiveBudget |-> effectiveBudget,
                       chunks |-> << >>],
                err |-> NoErr]

----------------------------------------------------------------------------
(***************************************************************************)
(* pkg/chunker: Push, Chunks, Reset, EffectiveBudget.                      *)
(* Push returns the outcome [chunks, err, log, ...]: chunks is c.chunks    *)
(* after the call and err the error returned; the other fields keep what   *)
(* the call computed on the way (the values of its local variables), for   *)
(* the properties to speak of.                                             *)
(***************************************************************************)
Outcome(chunks, err, log) ==
    [chunks |-> chunks, err |-> err, log |-> log,
     skipped |-> FALSE,          \* returned at the do_not_embed check
     parsed |-> EmptyFrontMatter,\* frontmatter as the parser returned it
     fm |-> EmptyFrontMatter,    \* frontmatter after the metadata transforms
     tree |-> NewRoot(<< >>),    \* the tree after the tree transforms
     frontBlock |-> << >>, frontTokens |-> 0, bodyBudget |-> 0,
     docChunks |-> << >>,        \* the chunks chunkDocument returned
     from |-> << >>]             \* their origins

RECURSIVE fmLoop(_, _, _, _, _)
\* "if err := transform(ctx, frontmatter); err != nil" and the rest of the
\* loop, r being what the call of the i-th transform returned
fmTransformed(r, ts, i, ctx, log) ==
    IF r.err # NoErr
    THEN [fm |-> r.fm, err |-> "frontmatter transform failed", log |-> log]
    ELSE fmLoop(ts, i + 1, ctx, r.fm, log)

\* the loop handing each transform a copy of the map, whose changes are
\* then lost
fmCopied(r, ts, i, ctx, frontmatter, log) ==
    IF r.err # NoErr
    THEN [fm |-> frontmatter, err |-> "frontmatter transform failed", log |-> log]
    ELSE fmLoop(ts, i + 1, ctx, frontmatter, log)

fmLoopOnCopies(ts, i, ctx, frontmatter, log) ==
    IF i > Len(ts) THEN [fm |-> frontmatter, err |-> NoErr, log |-> log]
    ELSE IF ctxErr(ctx, log) # NoErr
    THEN [fm |-> frontmatter, log |-> log,
          err |-> "context cancelled during frontmatter transform"]
    ELSE fmCopied(CallFmTransform(ts[i], ctx, frontmatter), ts, i, ctx, frontmatter,
                  Append(log, Event("fm", i, 0, frontmatter)))

\* the loop over c.config.fmTransforms, from the i-th on: [fm, err, log]
fmLoop(ts, i, ctx, frontmatter, log) ==
    IF i > Len(ts) THEN [fm |-> frontmatter, err |-> NoErr, log |-> log]
    ELSE IF ctxErr(ctx, log) # NoErr
    THEN [fm |-> frontmatter, log |-> log,
          err |-> "context cancelled during frontmatter transform"]
    ELSE fmTransformed(CallFmTransform(ts[i], ctx, frontmatter), ts, i, ctx,
                       Append(log, Event("fm", i, 0, frontmatter)))

RECURSIVE sectionLoop(_, _, _, _, _, _)
\* "if err := section.ApplyTransform(...); err != nil" and the rest of the
\* loop, r being what ApplyTransform returned for the i-th transform
sectionTransformed(r, ts, i, ctx, frontmatter) ==
    IF r.err # NoErr
    THEN [tree |-> r.tree, err |-> "section transform failed", log |-> r.log]
    ELSE sectionLoop(ts, i + 1, ctx, frontmatter, r.tree, r.log)

\* the loop replaced by one section.ApplyTransform call with the whole list
sectionAppliedAtOnce(r) ==
    IF r.err # NoErr
    THEN [tree |-> r.tree, err |-> "section transform failed", log |-> r.log]
    ELSE r

sectionLoopAtOnce(ts, i, ctx, frontmatter, tree, log) ==
    IF ctxErr(ctx, log) # NoErr
    THEN [tree |-> tree, log |-> log,
          err |-> "context cancelled during section transform"]
    ELSE sectionAppliedAtOnce(ApplyTransform(frontmatter, tree, ts, i, log))

\* the loop over c.config.sectionTransforms, from the i-th on: one
\* section.ApplyTransform call per transform; [tree, err, log]
sectionLoop(ts, i, ctx, frontmatter, tree, log) ==
    IF i > Len(ts) THEN [tree |-> tree, err |-> NoErr, log |-> log]
    ELSE IF ctxErr(ctx, log) # NoErr
    THEN [tree |-> tree, log |-> log,
          err |-> "context cancelled during section transform"]
    ELSE sectionTransformed(ApplyTransform(frontmatter, tree, <<ts[i]>>, i, log),
                            ts, i, ctx, frontmatter)

\* the flag read as the text "true"
doNotEmbedAsText(frontmatter) ==
    LET v == Lookup(frontmatter, "do_not_embed") IN v.t = "string" /\ v.s = <<"true">>

\* frontmatter["do_not_embed"].(bool), ok && doNotEmbed
doNotEmbed(frontmatter) ==
    LET v == Lookup(frontmatter, "do_not_embed") IN v.t = "bool" /\ v.n = 1

\* "c.chunks = chunks": the document's chunks in place of the collection
pushReplace(c, o, d) ==
    [o EXCEPT !.chunks = d.chunks, !.err = NoErr,
              !.docChunks = d.chunks, !.from = d.from]

\* Push from "c.chunks = append(c.chunks, chunks...)" on; d is what
\* chunkDocument returned
pushAccumulate(c, o, d) ==
    [o EXCEPT !.chunks = c.chunks \o d.chunks, !.err = NoErr,
              !.docChunks = d.chunks, !.from = d.from]

\* Push from the error check on Tokenize on; t is what Tokenize returned
pushTokenized(c, input, o, t) ==
    IF t.err # NoErr THEN [o EXCEPT !.err = "tokenization failed"]
    ELSE pushAccumulate(c, o,
             chunkDocument([filePath |-> input.Path,
                            fileTitle |-> input.Title,
                            frontBlock |-> o.frontBlock,
                            frontTokens |-> o.frontTokens,
                            bodyBudget |-> o.bodyBudget,
                            tree |-> o.tree,
                            root |-> t.t]))

\* the budget check that notes its error and goes on to pack
pushCountedNoReturn(c, input, o, n) ==
    IF n.err # NoErr THEN [o EXCEPT !.err = "frontmatter token counting failed"]
    ELSE [pushTokenized(c, input,
              [o EXCEPT !.frontTokens = n.n,
                        !.bodyBudget = c.effectiveBudget - n.n,
                        !.log = Append(@, Event("tokenize", 0, 0, EmptyFrontMatter))],
              Tokenize(c.config.tokenizer, o.tree))
          EXCEPT !.err = IF c.effectiveBudget - n.n <= 0
                         THEN "frontmatter exceeds effective budget" ELSE @]

\* the header count followed by a body budget of the whole effective
\* budget
pushCountedWholeBudget(c, input, o, n) ==
    IF n.err # NoErr THEN [o EXCEPT !.err = "frontmatter token counting failed"]
    ELSE LET frontTokens == n.n
             bodyBudget == c.effectiveBudget
             o1 == [o EXCEPT !.frontTokens = frontTokens, !.bodyBudget = bodyBudget]
         IN IF c.effectiveBudget - frontTokens <= 0
            THEN [o1 EXCEPT !.err = "frontmatter exceeds effective budget"]
            ELSE pushTokenized(c, input,
                     [o1 EXCEPT !.log = Append(@, Event("tokenize", 0, 0,
                                                        EmptyFrontMatter))],
                     Tokenize(c.config.tokenizer, o.tree))

\* Push from the error check on the header count on; n is what
\* tokenizer.Count(frontBlock) returned
pushCounted(c, input, o, n) ==
    IF n.err # NoErr THEN [o EXCEPT !.err = "frontmatter token counting failed"]
    ELSE LET frontTokens == n.n
             bodyBudget == c.effectiveBudget - frontTokens
             o1 == [o EXCEPT !.frontTokens = frontTokens, !.bodyBudget = bodyBudget]
         IN IF bodyBudget <= 0
            THEN [o1 EXCEPT !.err = "frontmatter exceeds effective budget"]
            ELSE pushTokenized(c, input,
                     [o1 EXCEPT !.log = Append(@, Event("tokenize", 0, 0,
                                                        EmptyFrontMatter))],
                     Tokenize(c.config.tokenizer, o.tree))

\* Push from the error check on the header on; h is what the header
\* generator returned
pushHeaded(c, input, o, h) ==
    IF h.err # NoErr THEN [o EXCEPT !.err = "header generation failed"]
    ELSE pushCounted(c, input,
             [o EXCEPT !.frontBlock = h.text,
                       !.log = Append(@, Event("count", 0, 0, EmptyFrontMatter))],
             Count(c.config.tokenizer, h.text))

\* Push from the error check on the tree transforms on; s is what the
\* loop over them returned
pushTransformed(c, input, o, s) ==
    IF s.err # NoErr THEN [o EXCEPT !.err = s.err, !.log = s.log, !.tree = s.tree]
    ELSE pushHeaded(c, input,
             [o EXCEPT !.tree = s.tree,
                       !.log = Append(s.log, Event("header", 0, 0, View(o.fm)))],
             CallHeaderGenerator(c.config.headerGenerator, View(o.fm)))

\* the flag read from the map as the parser returned it, before the error
\* of the metadata transforms is looked at
pushMetadataFlagFirst(c, ctx, input, root, o, f) ==
    IF doNotEmbed(o.parsed)
    THEN [o EXCEPT !.fm = f.fm, !.log = f.log, !.skipped = TRUE]
    ELSE IF f.err # NoErr THEN [o EXCEPT !.fm = f.fm, !.log = f.log, !.err = f.err]
    ELSE pushTransformed(c, input, [o EXCEPT !.fm = f.fm, !.log = f.log],
             sectionLoop(c.config.sectionTransforms, 1, ctx, f.fm, root, f.log))

\* Push from the error check on the metadata transforms on; f is what the
\* loop over them returned
pushMetadata(c, ctx, input, root, o, f) ==
    IF f.err # NoErr THEN [o EXCEPT !.fm = f.fm, !.log = f.log, !.err = f.err]
    ELSE IF doNotEmbed(f.fm)
    THEN [o EXCEPT !.fm = f.fm, !.log = f.log, !.skipped = TRUE]
    ELSE pushTransformed(c, input, [o EXCEPT !.fm = f.fm, !.log = f.log],
             sectionLoop(c.config.sectionTransforms, 1, ctx, f.fm, root, f.log))

\* Push from the error check on the parser on; p is what the parser
\* returned
pushParsed(c, ctx, input, p, log) ==
    IF p.err # NoErr THEN Outcome(c.chunks, "parse failed", log)
    ELSE pushMetadata(c, ctx, input, p.root,
             [Outcome(c.chunks, NoErr, log) EXCEPT !.parsed = p.frontmatter],
             fmLoop(c.config.fmTransforms, 1, ctx, p.frontmatter, log))

\* Push without the check of Input.Title
PushNoTitleCheck(c, ctx0, input) ==
    IF input.Path = << >>
    THEN Outcome(c.chunks, "Input.Path cannot be empty", << >>)
    ELSE IF input.Markdown = << >>
    THEN Outcome(c.chunks, "Input.Markdown cannot be empty", << >>)
    ELSE LET ctx == WithFileInfo(ctx0, [Path |-> input.Path, Title |-> input.Title])
         IN IF ctxErr(ctx, << >>) # NoErr
            THEN Outcome(c.chunks, "context cancelled before parsing", << >>)
            ELSE pushParsed(c, ctx, input, Parse(c.config.parser, input.Markdown),
                            << Event("parse", 0, 0, EmptyFrontMatter) >>)

\* defaultChunker.Push(ctx, input)
Push(c, ctx0, input) ==
    IF input.Path = << >>
    THEN Outcome(c.chunks, "Input.Path cannot be empty", << >>)
    ELSE IF input.Title = << >>
    THEN Outcome(c.chunks, "Input.Title cannot be empty", << >>)
    ELSE IF input.Markdown = << >>
    THEN Outcome(c.chunks, "Input.Markdown cannot be empty", << >>)
    ELSE LET ctx == WithFileInfo(ctx0, [Path |-> input.Path, Title |-> input.Title])
         IN IF ctxErr(ctx, << >>) # NoErr
            THEN Outcome(c.chunks, "context cancelled before parsing", << >>)
            ELSE pushParsed(c, ctx, input, Parse(c.config.parser, input.Markdown),
                            << Event("parse", 0, 0, EmptyFrontMatter) >>)

\* defaultChunker.Chunks
Chunks(c) == c.chunks

\* defaultChunker.Reset: c after the call
Reset(c) == [c EXCEPT !.chunks = << >>]

\* defaultChunker.EffectiveBudget
EffectiveBudget(c) == c.effectiveBudget

----------------------------------------------------------------------------
(***************************************************************************)
(* Spec: one chunker, built by New from one of Configs, then any sequence  *)
(* of Push and Reset calls (MaxCalls of them).  The documents pushed are   *)
(* those of Documents, which the configured parser (a stub, WithParser)    *)
(* maps to their section tree and metadata.                                *)
(***************************************************************************)
\* a line of words
Line(words) ==
    JoinSep([i \in 1..Len(words) |-> <<words[i]>>], <<" ">>) \o <<NL>>

Meta(keys, values) ==
    [nil |-> FALSE,
     m |-> [k \in {keys[i] : i \in 1..Len(keys)} |->
               values[CHOOSE i \in 1..Len(keys) : keys[i] = k]]]

Parsed(root, frontmatter) == [root |-> root, frontmatter |-> frontmatter, err |-> NoErr]

\* root "intro", a section A under it and a section B under A
TreePlain ==
    LET r == SetContent(NewRoot(<<"Doc">>), 1, Line(<<"intro">>))
        a == CreateChild(r, 1, <<"A">>, 1, Line(<<"a", "a">>))
    IN CreateChild(a, 2, <<"B">>, 2, Line(<<"b">>))

\* a root of one line
TreeOne(word) == SetContent(NewRoot(<<"Doc">>), 1, Line(<<word>>))

\* an empty root, a section A and a section X whose level skips one
TreeFlat ==
    LET a == CreateChild(NewRoot(<<"Doc">>), 1, <<"A">>, 1, Line(<<"a">>))
    IN CreateChild(a, 1, <<"X">>, 3, << >>)

\* a root with CR LF line ends, hard wraps and runs of blank lines
TreeWrapped ==
    SetContent(NewRoot(<<"Doc">>), 1,
               <<NL, "a", CR, NL, " ", "b", NL, NL, " ", NL, NL, "c", NL, NL>>)

Summary(text) == Meta(<<"summary", "counter">>, <<StringValue(text), IntValue(1)>>)

\* the stub parser's table: document text |-> what the parser returns
Documents ==
    (<<"plain">> :> Parsed(TreePlain, EmptyFrontMatter))
    @@ (<<"skip">> :> Parsed(TreePlain, Meta(<<"do_not_embed">>, <<BoolValue(TRUE)>>)))
    @@ (<<"skiptext">> :> Parsed(TreeOne("x"),
                                 Meta(<<"do_not_embed">>, <<StringValue(<<"true">>)>>)))
    @@ (<<"nometa">> :> Parsed(TreeOne("x"), NilFrontMatter))
    @@ (<<"broken">> :> [root |-> NewRoot(<< >>), frontmatter |-> NilFrontMatter,
                         err |-> "parse error"])
    @@ (<<"summary">> :> Parsed(TreeFlat, Summary(<<"s", " ", "s">>)))
    @@ (<<"boom">> :> Parsed(TreeOne("boom"), Summary(<<"s">>)))
    @@ (<<"boommeta">> :> Parsed(TreeOne("x"), Summary(<<"boom">>)))
    @@ (<<"wrapped">> :> Parsed(TreeWrapped, Summary(<<"s">>)))

StubParser == [kind |-> "table", docs |-> Documents]

WordCount == [kind |-> "words", per |-> 1]

FileHeader ==
    [kind |-> "KeyValueHeader", text |-> << >>,
     fields |-> << FieldSpec("file_path", <<"File">>, FALSE),
                   FieldSpec("summary", <<"Summary">>, FALSE) >>]

Ratio(num, den) == [num |-> num, den |-> den]

\* the configurations: the options handed to New
ConfigPlain ==
    << Option("WithChunkTokenBudget", 24),
       Option("WithTokenizer", WordCount),
       Option("WithParser", StubParser),
       Option("WithChunkHeader", FileHeader) >>

ConfigMedium ==
    << Option("WithChunkTokenBudget", 12),
       Option("WithReservedOverheadRatio", Ratio(0, 1)),
       Option("WithTokenizer", WordCount),
       Option("WithParser", StubParser),
       Option("WithChunkHeader",
              [FileHeader EXCEPT !.fields = SubSeq(@, 1, 1)]) >>

ConfigTiny ==
    << Option("WithChunkTokenBudget", 40),
       Option("WithReservedOverheadRatio", Ratio(9, 10)),
       Option("WithTokenizer", WordCount),
       Option("WithParser", StubParser),
       Option("WithChunkHeader",
              [FileHeader EXCEPT !.fields = SubSeq(@, 2, 2)]) >>

ConfigStrict ==
    << Option("WithParser", StubParser),
       Option("WithChunkTokenBudget", 60),
       Option("WithReservedOverheadRatio", Ratio(5, 10)),
       Option("WithTokenizer", [kind |-> "failon", bad |-> "boom", per |-> 1]),
       Option("WithChunkHeader",
              [FileHeader EXCEPT !.fields =
                  << FieldSpec("summary", <<"Summary">>, TRUE),
                     FieldSpec("counter", <<"Counter">>, FALSE) >>]),
       Option("WithFrontMatterTransform", FmTransform("incrementCounter", "")),
       Option("WithFrontMatterTransforms",
              << FmTransform("doubleCounter", ""),
                 FmTransform("RequireSummary", "") >>),
       Option("WithSectionTransforms",
              << SectionTransform("failOnTitle", <<"A">>, 0),
                 SectionTransform("addSuffix", Line(<<"end">>), 0) >>) >>

ConfigFailing ==
    << Option("WithChunkTokenBudget", 24),
       Option("WithTokenizer", WordCount),
       Option("WithParser", StubParser),
       Option("WithChunkHeader", [kind |-> "failing", text |-> << >>, fields |-> << >>]),
       Option("WithFrontMatterTransform", FmTransform("InjectFilePath", "")) >>

Configs == {ConfigPlain, ConfigMedium, ConfigTiny, ConfigStrict, ConfigFailing}

Paths == {<< >>, <<"a.md">>}
Titles == {<< >>, <<"A">>}
Markdowns == {<< >>} \cup DOMAIN Documents

\* context.Background()
Background ==
    [cancels |-> FALSE, at |-> 0, hasFileInfo |-> FALSE,
     fileInfo |-> [Path |-> << >>, Title |-> << >>]]

\* a context cancelled once at calls have been made
Cancelled(at) == [Background EXCEPT !.cancels = TRUE, !.at = at]

Contexts == {Background} \cup {Cancelled(at) : at \in 0..MaxCancelAt}

NoInput == [Path |-> << >>, Title |-> << >>, Markdown |-> << >>]

IdlePack ==
    /\ params = << >> /\ units = << >> /\ pos = 0 /\ builder = << >>
    /\ emitted = << >> /\ origin = << >>

IdleChunker ==
    /\ chunker = NilChunker /\ lastCall = << >> /\ hist = << >> /\ calls = 0

IdleNew == given = << >> /\ made = << >>

IdleRun == run = << >>

IdleWorker == worker = << >>

IdleMeasure == measured = << >>

IdleStore == store = << >>

IdlePasses == passes = << >>

\* what a walk that made no call has to return
NotWalked(tree) == [tree |-> tree, err |-> NoErr, log |-> << >>]

IdleWalk == walked = [tree |-> NewRoot(<< >>), ts |-> << >>,
                      out |-> NotWalked(NewRoot(<< >>))]

Init ==
    /\ pc = "chunker"
    /\ \E cfg \in Configs : given = cfg /\ chunker = New(cfg).c
    /\ made = << >>
    /\ lastCall = [op |-> "New", input |-> NoInput, ctx |-> Background,
               before |-> << >>, out |-> Outcome(<< >>, NoErr, << >>)]
    /\ hist = << >>
    /\ calls = 0
    /\ IdlePack /\ IdleRun /\ IdleWorker /\ IdleMeasure /\ IdleStore /\ IdlePasses /\ IdleWalk

\* a call c.Push(ctx, input)
PushStep ==
    /\ pc = "chunker"
    /\ calls < MaxCalls
    /\ \E path \in Paths, title \in Titles, markdown \in Markdowns, ctx \in Contexts :
         LET input == [Path |-> path, Title |-> title, Markdown |-> markdown]
             o == Push(chunker, ctx, input)
         IN /\ chunker' = [chunker EXCEPT !.chunks = o.chunks]
            /\ lastCall' = [op |-> "Push", input |-> input, ctx |-> ctx,
                        before |-> Chunks(chunker), out |-> o]
            /\ hist' = IF o.err = NoErr THEN Append(hist, o.docChunks) ELSE hist
    /\ calls' = calls + 1
    /\ UNCHANGED <<walkVars, passVars, storeVars, measureVars, workerVars, runVars, pc, packVars, newVars>>

\* a call c.Reset()
ResetStep ==
    /\ pc = "chunker"
    /\ calls < MaxCalls
    /\ chunker' = Reset(chunker)
    /\ lastCall' = [op |-> "Reset", input |-> NoInput, ctx |-> Background,
                before |-> Chunks(chunker), out |-> Outcome(<< >>, NoErr, << >>)]
    /\ hist' = << >>
    /\ calls' = calls + 1
    /\ UNCHANGED <<walkVars, passVars, storeVars, measureVars, workerVars, runVars, pc, packVars, newVars>>

Next == PushStep \/ ResetStep

Spec == Init /\ [][Next]_vars

----------------------------------------------------------------------------
(***************************************************************************)
(* SpecNew: New applied to a drawn token budget and a drawn reserved       *)
(* overhead ratio num/RatioDen.                                            *)
(***************************************************************************)
NewInit ==
    /\ pc = "new"
    /\ \E b \in 0..MaxNewBudget, num \in (0 - 1)..(RatioDen + 1) :
          given = << Option("WithChunkTokenBudget", b),
                    Option("WithReservedOverheadRatio", Ratio(num, RatioDen)) >>
    /\ made = << >>
    /\ IdlePack /\ IdleChunker /\ IdleRun /\ IdleWorker /\ IdleMeasure /\ IdleStore /\ IdlePasses /\ IdleWalk

NewStep ==
    /\ pc = "new"
    /\ made' = New(given)
    /\ pc' = "made"
    /\ UNCHANGED <<walkVars, passVars, storeVars, measureVars, workerVars, runVars, given, packVars, chunkerVars>>

NewNext == NewStep

SpecNew == NewInit /\ [][NewNext]_vars

----------------------------------------------------------------------------
(***************************************************************************)
(* SpecPack: chunkDocument run step by step on a drawn document.           *)
(* The document is a section tree of up to MaxNodes nodes (node i > 1      *)
(* hangs under any earlier node), each node's own content costing          *)
(* 0..MaxTok tokens; the header costs 0 or 1 token; the body budget is     *)
(* 1..MaxBudget (Push calls chunkDocument only with bodyBudget > 0).       *)
(***************************************************************************)
NodeSym == <<"a", "b", "c", "d", "e", "f">>

\* the own content of node i: tok + 1 symbols, so a node of zero tokens
\* still has text (an approximate counter rounds short text down to 0)
NodeText(i, tok) == [k \in 1..(tok + 1) |-> NodeSym[i]]

ParentMaps(n) == { par \in [1..n -> 0..n] :
                      /\ par[1] = 0
                      /\ \A i \in 2..n : par[i] >= 1 /\ par[i] < i }

Ids(n) == [k \in 1..n |-> k]

DrawnTree(n, par, tok) ==
    [n |-> n,
     parent |-> par,
     title |-> [i \in 1..n |-> <<NodeSym[i]>>],
     level |-> [i \in 1..n |-> 0],
     content |-> [i \in 1..n |-> NodeText(i, tok[i])],
     children |-> [i \in 1..n |-> SelectSeq(Ids(n), LAMBDA j : par[j] = i)]]

DrawnCounter(n, tok) ==
    [kind |-> "table",
     tok |-> [t \in {NodeText(i, tok[i]) : i \in 1..n} |->
                 tok[CHOOSE i \in 1..n : NodeText(i, tok[i]) = t]]]

FrontBlocks == { << >>, <<"---">> }

PackInit ==
    \E n \in 1..MaxNodes :
    \E par \in ParentMaps(n) :
    \E tok \in [1..n -> 0..MaxTok] :
    \E fb \in FrontBlocks :
    \E budget \in 1..MaxBudget :
        LET tree == DrawnTree(n, par, tok)
            t == Tokenize(DrawnCounter(n, tok), tree)
            p == [filePath |-> <<"a.md">>, fileTitle |-> <<"A">>,
                  frontBlock |-> fb, frontTokens |-> Len(fb),
                  bodyBudget |-> budget, tree |-> tree, root |-> t.t,
                  counter |-> DrawnCounter(n, tok)]
        IN /\ params = p
           /\ units = traverseUnits(tree, t.t)
           /\ pos = 1
           /\ builder = newChunkBuilder(p.filePath, p.fileTitle, p.frontBlock,
                                        p.frontTokens, p.bodyBudget)
           /\ emitted = << >>
           /\ origin = << >>
           /\ pc = "loop"
    /\ IdleChunker /\ IdleNew /\ IdleRun /\ IdleWorker /\ IdleMeasure /\ IdleStore /\ IdlePasses /\ IdleWalk

\* one iteration of "for _, u := range units"
AppendUnitStep ==
    /\ pc = "loop"
    /\ pos <= Len(units)
    /\ LET r == appendUnit(builder, units[pos].text, units[pos].tokens) IN
         /\ builder' = r.b
         /\ emitted' = emitted \o r.chunks
         /\ origin' = origin \o r.from
    /\ pos' = pos + 1
    /\ UNCHANGED <<walkVars, passVars, storeVars, measureVars, workerVars, runVars, params, units, pc, chunkerVars, newVars>>

\* "if final := builder.flush(); final != nil" and the return
FinalFlush ==
    /\ pc = "loop"
    /\ pos > Len(units)
    /\ LET f == flush(builder) IN
         /\ builder' = f.b
         /\ emitted' = emitted \o f.chunk
         /\ origin' = origin \o f.from
    /\ pc' = "done"
    /\ UNCHANGED <<walkVars, passVars, storeVars, measureVars, workerVars, runVars, params, units, pos, chunkerVars, newVars>>

PackNext == AppendUnitStep \/ FinalFlush

SpecPack == PackInit /\ [][PackNext]_vars

----------------------------------------------------------------------------
(***************************************************************************)
(* Properties of the packing (SpecPack).                                   *)
(***************************************************************************)
\* the nodes of the subtree of s, depth-first, a node before its children
\* and the children in document order
RECURSIVE PreOrder(_, _)
PreOrder(tree, s) ==
    <<s>> \o Flatten([k \in 1..Len(Children(tree, s)) |->
                         PreOrder(tree, Children(tree, s)[k])])

\* the own token count of node s under the counter the document was
\* tokenized with
OwnTokens(s) == Count(params.counter, Content(params.tree, s)).n

\* the texts of the units of the document: the own content of the nodes
\* that have tokens, in pre-order
UnitTexts ==
    LET nodes == SelectSeq(PreOrder(params.tree, 1), LAMBDA s : OwnTokens(s) > 0)
    IN [k \in 1..Len(nodes) |-> Content(params.tree, nodes[k])]

\* C1: when chunkDocument has returned, the body fragments of the chunks,
\* taken in chunk order, are exactly the units of the document in depth-first
\* pre-order (a node's own content before its children's): every unit is in
\* exactly one chunk, whole, each chunk's text is its header followed by its
\* fragments, and no chunk is without a fragment.
C1_UnitsOnceWholeInOrder ==
    pc = "done" =>
        /\ Len(origin) = Len(emitted)
        /\ Flatten([k \in 1..Len(origin) |-> origin[k].parts]) = UnitTexts
        /\ \A k \in 1..Len(emitted) :
              /\ origin[k].parts # << >>
              /\ emitted[k].Text = params.frontBlock \o Join(origin[k].parts)

\* a finished document of three units, none of them the last child popped
\* first by accident: a node with two children, a chunk of two units and a
\* second chunk
C1_Witness ==
    /\ pc = "done"
    /\ Len(UnitTexts) = 3
    /\ Len(Children(params.tree, 1)) = 2
    /\ Len(emitted) = 2
    /\ \E k \in 1..Len(origin) : Len(origin[k].parts) = 2

\* C3: at every moment of the packing, the k-th chunk emitted so far has
\* ChunkIndex k (from 1, in emission order), its Text is the header followed
\* by the plain concatenation of its fragments, without separator, and its
\* Tokens is the header's token count plus the sum of the token counts of
\* its fragments.
C3_TextTokensIndex ==
    pc \in {"loop", "done"} =>
        /\ Len(origin) = Len(emitted)
        /\ \A k \in 1..Len(emitted) :
              LET parts == origin[k].parts IN
              /\ emitted[k].ChunkIndex = k
              /\ emitted[k].Text = params.frontBlock \o Flatten(parts)
              /\ emitted[k].Tokens =
                    params.frontTokens
                    + SumSeq([j \in 1..Len(parts) |->
                                 Count(params.counter, parts[j]).n])

\* a finished document with a header of one token, a chunk of one oversized
\* unit and a later chunk flushed from two units
C3_Witness ==
    /\ pc = "done"
    /\ params.frontTokens = 1
    /\ \E j, k \in 1..Len(emitted) :
          /\ j < k
          /\ origin[j].via = "jumbo"
          /\ origin[k].via = "flush"
          /\ Len(origin[k].parts) = 2
          /\ emitted[k].Tokens = 3

----------------------------------------------------------------------------
(***************************************************************************)
(* Properties of New (SpecNew).                                            *)
(***************************************************************************)
\* the budget and the numerator of the ratio that New was given
GivenBudget == given[1].value
GivenRatio == given[2].value

\* C4: a chunker New built from budget B and ratio num/RatioDen has the
\* effective budget floor(B * (1 - num/RatioDen)), the floor of the exact
\* product.
C4_FloorOfExactProduct ==
    (pc = "made" /\ made.err = NoErr) =>
        EffectiveBudget(made.c) =
            (GivenBudget * (GivenRatio.den - GivenRatio.num)) \div GivenRatio.den

----------------------------------------------------------------------------
(***************************************************************************)
(* Properties of Push, Reset and Chunks (Spec).                            *)
(***************************************************************************)
\* the last call was a Push
Pushed == pc = "chunker" /\ lastCall.op = "Push"

\* the last Push returned nil and did not stop at the do_not_embed check
Packed == Pushed /\ lastCall.out.err = NoErr /\ ~lastCall.out.skipped

ValidInput(input) ==
    input.Path # << >> /\ input.Title # << >> /\ input.Markdown # << >>

\* the calls of one kind in a log, in order
EventsOf(log, op) == SelectSeq(log, LAMBDA e : e.op = op)

IsPrefix(a, b) == Len(a) <= Len(b) /\ SubSeq(b, 1, Len(a)) = a

\* the token count of a text under the chunker's tokenizer
TokensOf(text) == Count(chunker.config.tokenizer, text).n

\* the k-th chunk of the last document is a jumbo chunk: it holds one unit
\* that alone exceeds the document's body budget
IsJumbo(k) ==
    LET parts == lastCall.out.from[k].parts IN
    Len(parts) = 1 /\ TokensOf(parts[1]) > lastCall.out.bodyBudget

\* C2: every chunk of a pushed document that is not a jumbo chunk has
\* Tokens <= EffectiveBudget() + the token count of the document's header.
C2_BudgetConformance ==
    Packed =>
        \A k \in 1..Len(lastCall.out.docChunks) :
            ~IsJumbo(k) =>
                lastCall.out.docChunks[k].Tokens
                    <= EffectiveBudget(chunker) + TokensOf(lastCall.out.frontBlock)

\* a document with a header that has tokens, a chunk that is not jumbo and
\* uses the effective budget to the last token, and a jumbo chunk above it
C2_Witness ==
    /\ Packed
    /\ TokensOf(lastCall.out.frontBlock) > 0
    /\ \E j, k \in 1..Len(lastCall.out.docChunks) :
          /\ ~IsJumbo(j)
          /\ lastCall.out.docChunks[j].Tokens = EffectiveBudget(chunker)
          /\ IsJumbo(k)
          /\ lastCall.out.docChunks[k].Tokens > EffectiveBudget(chunker)

\* the do_not_embed flag is present with the boolean value true
FlagSet(frontmatter) ==
    HasKey(frontmatter, "do_not_embed")
    /\ Lookup(frontmatter, "do_not_embed") = BoolValue(TRUE)

\* the last Push ran every metadata transform and none failed
MetadataDone ==
    /\ Pushed
    /\ Len(EventsOf(lastCall.out.log, "fm")) = Len(chunker.config.fmTransforms)
    /\ lastCall.out.err # "frontmatter transform failed"

C6_EmptyInputRejected ==
    (Pushed /\ ~ValidInput(lastCall.input)) =>
        /\ lastCall.out.err # NoErr
        /\ lastCall.out.log = << >>
        /\ Chunks(chunker) = lastCall.before

\* a Push with only the title empty, for a document that would pack, on a
\* chunker that holds chunks
C6_Witness ==
    /\ Pushed
    /\ lastCall.input.Title = << >>
    /\ lastCall.input.Path # << >>
    /\ lastCall.input.Markdown = <<"plain">>
    /\ lastCall.ctx = Background
    /\ lastCall.before # << >>
    /\ lastCall.out.err = "Input.Title cannot be empty"

\* C7: a Push that returns an error, whatever the step that failed, leaves
\* Chunks() exactly as it was before the call.
C7_FailedPushKeepsChunks ==
    (Pushed /\ lastCall.out.err # NoErr) =>
        Chunks(chunker) = lastCall.before

\* a Push that fails at its last step, Tokenize, on a chunker that holds the
\* chunks of an earlier document
C7_Witness ==
    /\ Pushed
    /\ lastCall.out.err = "tokenization failed"
    /\ lastCall.before # << >>
    /\ Chunks(chunker) = lastCall.before

\* C8: Chunks() is the concatenation, in push order, of the chunk lists of
\* the documents pushed without error since the last Reset (or since New);
\* after Reset it is empty; each document's ChunkIndex values are 1, 2, ...
C8_ChunksAccumulate ==
    pc = "chunker" =>
        /\ Chunks(chunker) = Flatten(hist)
        /\ lastCall.op = "Reset" => Chunks(chunker) = << >>
        /\ \A d \in 1..Len(hist) : \A k \in 1..Len(hist[d]) :
              hist[d][k].ChunkIndex = k

\* two documents pushed one after the other, of two chunks and more each
C8_Witness ==
    /\ pc = "chunker"
    /\ Len(hist) = 2
    /\ Len(hist[1]) >= 2
    /\ Len(hist[2]) >= 2
    /\ hist[1] # hist[2]
    /\ Chunks(chunker)[Len(hist[1]) + 1].ChunkIndex = 1

\* the calls of tree transforms of a log: <<transform index, node>>
SectionCalls(log) ==
    LET es == EventsOf(log, "section") IN
    [k \in 1..Len(es) |-> <<es[k].i, es[k].node>>]

\* transform after transform, each on every node in pre-order
TransformMajor(count, tree) ==
    LET nodes == PreOrder(tree, 1) IN
    Flatten([i \in 1..count |-> [k \in 1..Len(nodes) |-> <<i, nodes[k]>>]])

\* C9 as stated: in a Push that packed its document, every call of a tree
\* transform on a node comes before every call of a tree transform on that
\* node's first child.
C9_NodeMajor ==
    Packed =>
        LET calls9 == SectionCalls(lastCall.out.log)
            tree == lastCall.out.tree
        IN \A n \in 1..tree.n :
              Children(tree, n) # << >> =>
                  \A p, q \in 1..Len(calls9) :
                      (calls9[p][2] = n /\ calls9[q][2] = Children(tree, n)[1])
                          => p < q

\* C9: Push applies the configured tree transforms one after the other, each
\* on every node of the tree in depth-first pre-order before the next one
\* runs on any node; a Push that fails or is cancelled has made a prefix of
\* these calls.
C9_TransformMajor ==
    Pushed =>
        LET calls9 == SectionCalls(lastCall.out.log)
            expected == TransformMajor(Len(chunker.config.sectionTransforms),
                                       lastCall.out.tree)
        IN /\ IsPrefix(calls9, expected)
           /\ Packed => calls9 = expected

\* a packed document whose root has a child that has a child
C9_Witness ==
    /\ Packed
    /\ lastCall.out.tree.n = 3
    /\ Children(lastCall.out.tree, 2) = <<3>>
    /\ Len(SectionCalls(lastCall.out.log))
          = 3 * Len(chunker.config.sectionTransforms)

\* the metadata transforms the options register, in the order given
RECURSIVE Registered(_)
Registered(opts) ==
    IF opts = << >> THEN << >>
    ELSE (IF Head(opts).name = "WithFrontMatterTransform" THEN << Head(opts).value >>
          ELSE IF Head(opts).name = "WithFrontMatterTransforms" THEN Head(opts).value
          ELSE << >>)
         \o Registered(Tail(opts))

\* C10: the metadata transforms of a chunker are InjectFilePath ("file_path")
\* followed by those the options registered, in the order given; a Push
\* calls them in that order, each at most once and all of them once it gets
\* past them; the first is handed the map the parser returned and each
\* later one the map as the one before it left it, and the map that goes on
\* to the rest of Push is the map as the last one left it.
C10_MetadataTransformsInOrder ==
    Pushed =>
        LET ts == chunker.config.fmTransforms
            es == EventsOf(lastCall.out.log, "fm")
            ctx == WithFileInfo(lastCall.ctx, [Path |-> lastCall.input.Path,
                                               Title |-> lastCall.input.Title])
        IN /\ ts = << FmTransform("InjectFilePath", "file_path") >> \o Registered(given)
           /\ Len(es) <= Len(ts)
           /\ \A k \in 1..Len(es) :
                 /\ es[k].i = k
                 /\ es[k].fm = IF k = 1 THEN lastCall.out.parsed
                               ELSE CallFmTransform(ts[k - 1], ctx, es[k - 1].fm).fm
           /\ MetadataDone =>
                 lastCall.out.fm = CallFmTransform(ts[Len(ts)], ctx, es[Len(ts)].fm).fm
           /\ (lastCall.out.err = NoErr \/ EventsOf(lastCall.out.log, "section") # << >>)
                 => MetadataDone

\* a packed document that went through incrementCounter then doubleCounter
\* after the default: counter 1 has become (1 + 1) * 2 and file_path is set
C10_Witness ==
    /\ Packed
    /\ Len(chunker.config.fmTransforms) = 4
    /\ Lookup(lastCall.out.parsed, "counter") = IntValue(1)
    /\ Lookup(lastCall.out.fm, "counter") = IntValue(4)
    /\ Lookup(lastCall.out.fm, "file_path") = StringValue(lastCall.input.Path)

\* the tree transform calls of a log replayed on a tree, from the k-th on:
\* the tree as they leave it and the index of the first call that returns an
\* error (0 when none does), after which nothing is replayed
RECURSIVE Replay(_, _, _, _)
Replay(ts, tree, calls11, k) ==
    IF k > Len(calls11) THEN [tree |-> tree, failedAt |-> 0]
    ELSE LET r == CallSectionTransform(ts[calls11[k][1]], tree, calls11[k][2]) IN
         IF r.err # NoErr THEN [tree |-> r.tree, failedAt |-> k]
         ELSE Replay(ts, r.tree, calls11, k + 1)

\* the context Push hands to the parser and the transforms
PushContext ==
    WithFileInfo(lastCall.ctx, [Path |-> lastCall.input.Path,
                                Title |-> lastCall.input.Title])

\* C11: in every Push, a metadata transform or a tree transform call that
\* returns an error is the last call Push makes: no later transform, node,
\* header generator or tokenizer is called, Push returns the transform error
\* and adds no chunk, and the metadata map and the tree are left as the
\* calls made so far changed them; Push reports a transform error only when
\* a transform call returned one.
C11_FirstErrorStops ==
    Pushed =>
        LET log == lastCall.out.log
            fts == chunker.config.fmTransforms
            es == EventsOf(log, "fm")
            calls11 == SectionCalls(log)
            replayed == Replay(chunker.config.sectionTransforms,
                               Parse(chunker.config.parser,
                                     lastCall.input.Markdown).root,
                               calls11, 1)
        IN /\ \A k \in 1..Len(es) :
                 CallFmTransform(fts[k], PushContext, es[k].fm).err # NoErr
                    => /\ k = Len(es)
                       /\ log[Len(log)] = es[k]
                       /\ lastCall.out.err = "frontmatter transform failed"
                       /\ lastCall.out.fm
                             = CallFmTransform(fts[k], PushContext, es[k].fm).fm
                       /\ Chunks(chunker) = lastCall.before
           /\ lastCall.out.err = "frontmatter transform failed"
                 => /\ es # << >>
                    /\ CallFmTransform(fts[Len(es)], PushContext,
                                       es[Len(es)].fm).err # NoErr
           /\ calls11 # << >> =>
                 /\ replayed.failedAt # 0
                       => /\ replayed.failedAt = Len(calls11)
                          /\ log[Len(log)].op = "section"
                          /\ lastCall.out.err = "section transform failed"
                          /\ lastCall.out.tree = replayed.tree
                          /\ Chunks(chunker) = lastCall.before
                 /\ lastCall.out.err = "section transform failed"
                       => replayed.failedAt # 0
           /\ lastCall.out.err = "section transform failed" => calls11 # << >>

\* a Push on a chunker holding chunks whose eighth tree transform of nine
\* fails on the second node of three, after the transforms before it changed
\* the tree
C11_Witness ==
    /\ Pushed
    /\ lastCall.out.err = "section transform failed"
    /\ lastCall.before # << >>
    /\ lastCall.out.tree.n = 3
    /\ Len(chunker.config.sectionTransforms) = 9
    /\ SectionCalls(lastCall.out.log)[Len(SectionCalls(lastCall.out.log))] = <<8, 2>>
    /\ lastCall.out.tree
          # Parse(chunker.config.parser, lastCall.input.Markdown).root

----------------------------------------------------------------------------
(***************************************************************************)
(* SpecCancel: one chunker, built by New from one of Configs, and one Push *)
(* of a valid input with a context that is cancelled once 0..MaxCancelPoint*)
(* calls have been made (0: cancelled when Push is called).                *)
(***************************************************************************)
CancelInit ==
    /\ pc = "cancel"
    /\ \E cfg \in Configs : given = cfg /\ chunker = New(cfg).c
    /\ made = << >>
    /\ lastCall = [op |-> "New", input |-> NoInput, ctx |-> Background,
               before |-> << >>, out |-> Outcome(<< >>, NoErr, << >>)]
    /\ hist = << >>
    /\ calls = 0
    /\ IdlePack /\ IdleRun /\ IdleWorker /\ IdleMeasure /\ IdleStore /\ IdlePasses /\ IdleWalk

\* a call c.Push(ctx, input) with a context that gets cancelled
CancelledPushStep ==
    /\ pc = "cancel"
    /\ \E markdown \in DOMAIN Documents, at \in 0..MaxCancelPoint :
         LET input == [Path |-> <<"a.md">>, Title |-> <<"A">>, Markdown |-> markdown]
             o == Push(chunker, Cancelled(at), input)
         IN /\ chunker' = [chunker EXCEPT !.chunks = o.chunks]
            /\ lastCall' = [op |-> "Push", input |-> input, ctx |-> Cancelled(at),
                        before |-> Chunks(chunker), out |-> o]
            /\ hist' = IF o.err = NoErr THEN Append(hist, o.docChunks) ELSE hist
    /\ calls' = calls + 1
    /\ pc' = "cancelled"
    /\ UNCHANGED <<walkVars, passVars, storeVars, measureVars, workerVars, runVars, packVars, newVars>>

CancelNext == CancelledPushStep

SpecCancel == CancelInit /\ [][CancelNext]_vars

\* the calls Push made to the parser and to the transforms
StageCalls(log) == SelectSeq(log, LAMBDA e : e.op \in {"parse", "fm", "section"})

CancellationErrors ==
    { "context cancelled before parsing",
      "context cancelled during frontmatter transform",
      "context cancelled during section transform" }

\* C12: a Push whose context is cancelled when it is called, or after the
\* parser or any of the transform calls it made (the last one included),
\* and in which no call failed, returns a cancellation error and adds no
\* chunk.
C12_CancellationAborts ==
    (/\ pc = "cancelled"
     /\ lastCall.ctx.at <= Len(StageCalls(lastCall.out.log))
     /\ lastCall.out.err \in {NoErr} \cup CancellationErrors) =>
        /\ lastCall.out.err \in CancellationErrors
        /\ Chunks(chunker) = lastCall.before

----------------------------------------------------------------------------
(***************************************************************************)
(* SpecRun: RunCmd.Run from the creation of the chunker on: the files are  *)
(* processed in sorted order, the jumbo chunks are looked for, the chunk   *)
(* output is printed and the chunk files are written.                      *)
(***************************************************************************)
MaxFiles == 2

\* the files of the project, in the order of sort.Strings; the stub parser
\* is keyed by a file's content, a file holds the document of its name
ProjectFiles == << <<"boom">>, <<"broken">>, <<"plain">>, <<"wrapped">> >>

RunConfigs == {ConfigPlain, ConfigMedium, ConfigTiny}

\* the Input processFile builds for a file
FileInput(file) ==
    [Path |-> file \o <<".md">>, Title |-> file, Markdown |-> file]

\* the chunks Run holds to be jumbo
JumboChunks(chunks, effectiveBudget) ==
    SelectSeq(chunks, LAMBDA chunk : chunk.Tokens > effectiveBudget)

\* the lines of the jumbo warning, one per jumbo chunk
JumboWarning(jumboChunks) ==
    [k \in 1..Len(jumboChunks) |->
        [line |-> "jumbo", FilePath |-> jumboChunks[k].FilePath,
         ChunkIndex |-> jumboChunks[k].ChunkIndex,
         Tokens |-> jumboChunks[k].Tokens]]

\* printChunkOutput: one line per chunk, marked when the chunk is jumbo
printChunkOutput(chunks, effectiveBudget) ==
    [k \in 1..Len(chunks) |->
        [line |-> "chunk", FilePath |-> chunks[k].FilePath,
         ChunkIndex |-> chunks[k].ChunkIndex, Tokens |-> chunks[k].Tokens,
         isJumbo |-> chunks[k].Tokens > effectiveBudget]]

RunInit ==
    /\ pc = "run"
    /\ \E cfg \in RunConfigs : given = cfg /\ chunker = New(cfg).c
    /\ made = << >>
    /\ lastCall = [op |-> "New", input |-> NoInput, ctx |-> Background,
               before |-> << >>, out |-> Outcome(<< >>, NoErr, << >>)]
    /\ hist = << >>
    /\ calls = 0
    /\ IdlePack /\ IdleWorker /\ IdleMeasure /\ IdleStore /\ IdlePasses /\ IdleWalk
    /\ \E Strict \in BOOLEAN, Verbose \in BOOLEAN, DryRun \in BOOLEAN,
          diskFails \in BOOLEAN, chosen \in SUBSET {ProjectFiles[i] : i \in 1..Len(ProjectFiles)} :
         /\ Cardinality(chosen) <= MaxFiles
         /\ run = [Strict |-> Strict, Verbose |-> Verbose, DryRun |-> DryRun,
                   diskFails |-> diskFails,
                   files |-> SelectSeq(ProjectFiles, LAMBDA f : f \in chosen),
                   next |-> 1, at |-> "process", stderr |-> << >>,
                   written |-> << >>, err |-> NoErr]

\* one iteration of the loop over the files: processFile
ProcessFileStep ==
    /\ pc = "run" /\ run.at = "process" /\ run.next <= Len(run.files)
    /\ LET input == FileInput(run.files[run.next])
           o == Push(chunker, Background, input)
       IN /\ chunker' = [chunker EXCEPT !.chunks = o.chunks]
          /\ lastCall' = [op |-> "Push", input |-> input, ctx |-> Background,
                      before |-> Chunks(chunker), out |-> o]
          /\ hist' = IF o.err = NoErr THEN Append(hist, o.docChunks) ELSE hist
          /\ run' = IF o.err # NoErr
                    THEN [run EXCEPT !.err = "error processing", !.at = "returned"]
                    ELSE [run EXCEPT !.next = @ + 1]
    /\ calls' = calls + 1
    /\ UNCHANGED <<walkVars, passVars, storeVars, measureVars, workerVars, pc, packVars, newVars>>

\* after the loop: the jumbo chunks, their warning and strict mode
JumboCheckStep ==
    /\ pc = "run" /\ run.at = "process" /\ run.next > Len(run.files)
    /\ LET jumboChunks == JumboChunks(Chunks(chunker), EffectiveBudget(chunker))
           warned == IF Len(jumboChunks) > 0 /\ run.Verbose
                     THEN run.stderr \o JumboWarning(jumboChunks)
                     ELSE run.stderr
       IN run' = IF Len(jumboChunks) > 0 /\ run.Strict
                 THEN [run EXCEPT !.stderr = warned, !.at = "returned",
                         !.err = "strict mode enabled: aborting due to jumbo chunks"]
                 ELSE [run EXCEPT !.stderr = warned, !.at = "print"]
    /\ UNCHANGED <<walkVars, passVars, storeVars, measureVars, workerVars, pc, packVars, chunkerVars, newVars>>

\* the chunk output, and the return of a dry run
PrintChunkOutputStep ==
    /\ pc = "run" /\ run.at = "print"
    /\ run' = [run EXCEPT
                 !.stderr = @ \o printChunkOutput(Chunks(chunker),
                                                  EffectiveBudget(chunker)),
                 !.at = IF run.DryRun THEN "returned" ELSE "write"]
    /\ UNCHANGED <<walkVars, passVars, storeVars, measureVars, workerVars, pc, packVars, chunkerVars, newVars>>

\* the output directory and one file per chunk
WriteFilesStep ==
    /\ pc = "run" /\ run.at = "write"
    /\ run' = IF run.diskFails
              THEN [run EXCEPT !.at = "returned",
                               !.err = "failed to create output directory"]
              ELSE [run EXCEPT !.at = "returned",
                               !.written = [k \in 1..Len(Chunks(chunker)) |->
                                               <<Chunks(chunker)[k].FilePath,
                                                 Chunks(chunker)[k].ChunkIndex>>]]
    /\ UNCHANGED <<walkVars, passVars, storeVars, measureVars, workerVars, pc, packVars, chunkerVars, newVars>>

RunNext == ProcessFileStep \/ JumboCheckStep \/ PrintChunkOutputStep \/ WriteFilesStep

SpecRun == RunInit /\ [][RunNext]_vars

\* the jumbo chunks Run holds once the files are processed
RunJumbo == JumboChunks(Chunks(chunker), EffectiveBudget(chunker))

Processed == pc = "run" /\ run.next > Len(run.files)

StrictFailure == "strict mode enabled: aborting due to jumbo chunks"

\* every jumbo chunk has a line on stderr
JumboReported ==
    \A k \in 1..Len(RunJumbo) :
        \E i \in 1..Len(run.stderr) :
            /\ run.stderr[i].FilePath = RunJumbo[k].FilePath
            /\ run.stderr[i].ChunkIndex = RunJumbo[k].ChunkIndex
            /\ run.stderr[i].line = "jumbo" \/ run.stderr[i].isJumbo

\* C13: once Run has returned: with strict mode and a jumbo chunk among the
\* chunks of the processed files Run fails with the strict-mode error; that
\* error comes only when every file has been processed and every jumbo
\* chunk has been reported; without strict mode a run whose files are all
\* processed and whose output can be written returns nil.
C13_StrictFailsAfterReport ==
    (pc = "run" /\ run.at = "returned") =>
        /\ (run.Strict /\ Processed /\ Len(RunJumbo) > 0) => run.err = StrictFailure
        /\ run.err = StrictFailure =>
              /\ Processed
              /\ Len(RunJumbo) > 0
              /\ JumboReported
        /\ (~run.Strict /\ Processed /\ ~(run.diskFails /\ ~run.DryRun)) =>
              run.err = NoErr

\* what the run does without the report: the strict-mode failure comes
\* exactly when every file is processed and a chunk is jumbo, and the jumbo
\* chunks are reported before it exactly in verbose mode
C13_StrictFailsAfterProcessing ==
    (pc = "run" /\ run.at = "returned") =>
        /\ (run.Strict /\ Processed /\ Len(RunJumbo) > 0) => run.err = StrictFailure
        /\ run.err = StrictFailure =>
              /\ run.Strict /\ Processed /\ Len(RunJumbo) > 0
              /\ run.written = << >>
              /\ run.stderr = IF run.Verbose THEN JumboWarning(RunJumbo) ELSE << >>
        /\ (~run.Strict /\ Processed /\ ~(run.diskFails /\ ~run.DryRun)) =>
              /\ run.err = NoErr
              /\ JumboReported

----------------------------------------------------------------------------
(***************************************************************************)
(* internal/parser: the fold of the heading spans and the source bytes     *)
(* into a section tree.  Byte offsets count from 0 as in the source; the   *)
(* stack holds section nodes and is indexed from 1.                        *)
(***************************************************************************)

\* Section.AppendContent
AppendContent(tree, i, fragment) == SetContent(tree, i, Content(tree, i) \o fragment)

\* spliceText that takes one byte more than asked
spliceTextLong(src, start, stop) ==
    LET start1 == IF start < 0 THEN 0 ELSE start
        stop1 == IF stop + 1 > Len(src) THEN Len(src) ELSE stop + 1
    IN IF stop1 <= start1
       THEN [text |-> << >>, next |-> start1]
       ELSE [text |-> SubSeq(src, start1 + 1, stop1), next |-> stop1]

\* spliceText(src, start, stop): [text, next]
spliceText(src, start, stop) ==
    LET start1 == IF start < 0 THEN 0 ELSE start
        stop1 == IF stop > Len(src) THEN Len(src) ELSE stop
    IN IF stop1 <= start1
       THEN [text |-> << >>, next |-> start1]
       ELSE [text |-> SubSeq(src, start1 + 1, stop1), next |-> stop1]

RECURSIVE parentScan(_, _, _, _)
\* the scan that also stops at a section of the target level
parentScanSameLevel(tree, stack, target, i) ==
    IF i >= 1 /\ tree.level[stack[i]] > target
    THEN parentScan(tree, stack, target, i - 1)
    ELSE i

\* the loop of parentForLevel, from stack index i downwards
parentScan(tree, stack, target, i) ==
    IF i >= 1 /\ tree.level[stack[i]] >= target
    THEN parentScan(tree, stack, target, i - 1)
    ELSE i

\* parentForLevel that always answers the top of the stack
parentForLevelTop(tree, stack, target) == Len(stack)

\* parentForLevel(stack, target): the stack index of the parent, 0 for the
\* source's -1 and error
parentForLevel(tree, stack, target) == parentScan(tree, stack, target, Len(stack))

\* the body of the loop that pushes the new section on the stack as it is,
\* without cutting it back to the parent
foldHeadingUncut(w, h) ==
    LET pre == spliceText(w.src, w.cursor, h.Start)
        w1 == IF h.Start > w.cursor
              THEN [w EXCEPT !.root = AppendContent(@, w.stack[Len(w.stack)], pre.text),
                             !.cursor = pre.next]
              ELSE w
        pi == parentForLevel(w1.root, w1.stack, h.Level)
    IN IF pi < 1
       THEN [w1 EXCEPT !.err = "invalid section stack"]
       ELSE LET sec == CreateChild(w1.root, w1.stack[pi], h.Title, h.Level, << >>)
            IN [w1 EXCEPT !.root = sec,
                          !.stack = Append(w1.stack, sec.n),
                          !.cursor = h.End]

\* the body of the loop of fold for the heading span h
foldHeading(w, h) ==
    LET pre == spliceText(w.src, w.cursor, h.Start)
        w1 == IF h.Start > w.cursor
              THEN [w EXCEPT !.root = AppendContent(@, w.stack[Len(w.stack)], pre.text),
                             !.cursor = pre.next]
              ELSE w
        pi == parentForLevel(w1.root, w1.stack, h.Level)
    IN IF pi < 1
       THEN [w1 EXCEPT !.err = "invalid section stack"]
       ELSE LET sec == CreateChild(w1.root, w1.stack[pi], h.Title, h.Level, << >>)
            IN [w1 EXCEPT !.root = sec,
                          !.stack = Append(SubSeq(w1.stack, 1, pi), sec.n),
                          !.cursor = h.End]

RECURSIVE foldLoop(_, _)
foldLoop(w, i) ==
    IF i > Len(w.spans) \/ w.err # NoErr
    THEN w
    ELSE foldLoop(foldHeading(w, w.spans[i]), i + 1)

\* the trailing content after the last heading
foldTrailing(w) ==
    IF w.err = NoErr /\ w.cursor < Len(w.src)
    THEN [w EXCEPT !.root = AppendContent(@, w.stack[Len(w.stack)],
                                          spliceText(w.src, w.cursor, Len(w.src)).text)]
    ELSE w

\* worker.fold(docTitle)
fold(w, docTitle) ==
    foldTrailing(foldLoop([w EXCEPT !.root = NewRoot(docTitle), !.stack = <<1>>,
                                    !.cursor = 0], 1))

----------------------------------------------------------------------------
(***************************************************************************)
(* SpecFold: fold applied to a source of up to MaxSrc distinct bytes and   *)
(* up to MaxSpans heading spans [Start, End) in document order that do not *)
(* overlap, with levels 1..MaxLevel.                                       *)
(***************************************************************************)
MaxSrc == 6
MaxSpans == 3
MaxLevel == 3

SrcBytes == <<"a", "b", "c", "d", "e", "f", "g", "h">>

HeadingTitle(i) == <<"T", ToString(i)>>

\* the lists of at most k spans that lie in from..len, in order, disjoint
RECURSIVE SpanLists(_, _, _)
SpanLists(from, k, len) ==
    {<< >>} \cup
    (IF k = 0 THEN {}
     ELSE UNION { { <<[Start |-> start, End |-> stop]>> \o rest :
                      rest \in SpanLists(stop, k - 1, len) } :
                  <<start, stop>> \in { se \in (from..len) \X (from..len) :
                                           se[1] < se[2] } })

FoldInit ==
    /\ pc = "fold"
    /\ IdlePack /\ IdleChunker /\ IdleNew /\ IdleRun /\ IdleMeasure /\ IdleStore /\ IdlePasses /\ IdleWalk
    /\ \E len \in 0..MaxSrc :
         \E cuts \in SpanLists(0, MaxSpans, len) :
           \E levels \in [1..Len(cuts) -> 1..MaxLevel] :
             worker = [src |-> SubSeq(SrcBytes, 1, len),
                       spans |-> [i \in 1..Len(cuts) |->
                                    [Start |-> cuts[i].Start, End |-> cuts[i].End,
                                     Level |-> levels[i], Title |-> HeadingTitle(i)]],
                       root |-> << >>, stack |-> << >>, cursor |-> 0,
                       err |-> NoErr]

\* w.fold(title)
FoldStep ==
    /\ pc = "fold"
    /\ worker' = fold(worker, <<"Doc">>)
    /\ pc' = "folded"
    /\ UNCHANGED <<walkVars, passVars, storeVars, measureVars, packVars, chunkerVars, newVars, runVars>>

FoldNext == FoldStep

SpecFold == FoldInit /\ [][FoldNext]_vars

Folded == pc = "folded" /\ worker.err = NoErr

\* the node of the i-th heading: the root is node 1
HeadingNode(i) == i + 1

\* C14: in the tree fold builds, the root has level 0 and no parent, there
\* is one node per heading with the heading's level and title, every child's
\* level is strictly greater than its parent's, and the pre-order walk
\* (children left to right) visits the headings in document order.
C14_LevelsAndOrder ==
    Folded =>
        LET tree == worker.root IN
        /\ tree.level[1] = 0 /\ tree.parent[1] = 0
        /\ tree.n = Len(worker.spans) + 1
        /\ \A i \in 1..Len(worker.spans) :
              /\ tree.level[HeadingNode(i)] = worker.spans[i].Level
              /\ tree.title[HeadingNode(i)] = worker.spans[i].Title
              /\ tree.level[HeadingNode(i)] > tree.level[tree.parent[HeadingNode(i)]]
              /\ \E k \in 1..Len(Children(tree, tree.parent[HeadingNode(i)])) :
                    Children(tree, tree.parent[HeadingNode(i)])[k] = HeadingNode(i)
        /\ PreOrder(tree, 1) = [k \in 1..tree.n |-> k]

\* three headings, the second below the first with a level skipped, the
\* third a child of the root again
C14_Witness ==
    /\ Folded
    /\ Len(worker.spans) = 3
    /\ worker.root.level = <<0, 1, 3, 1>>
    /\ worker.root.parent = <<0, 1, 2, 1>>

\* the heading before the i-th that is nearest to it among those of a
\* strictly smaller level, 0 if there is none
NearestSmaller(i) ==
    LET smaller == {j \in 1..(i - 1) : worker.spans[j].Level < worker.spans[i].Level}
    IN IF smaller = {} THEN 0 ELSE CHOOSE j \in smaller : \A m \in smaller : m <= j

LevelsOf(spans) == [i \in 1..Len(spans) |-> spans[i].Level]

\* C15: fold puts each heading under the nearest preceding heading of a
\* strictly smaller level, under the root if there is none; H1, H3, H2 gives
\* H1 the children H3, H2 in this order and H3 no child; two consecutive
\* headings of one level are siblings.
C15_NearestSmallerParent ==
    Folded =>
        LET tree == worker.root IN
        /\ \A i \in 1..Len(worker.spans) :
              tree.parent[HeadingNode(i)] = HeadingNode(NearestSmaller(i))
        /\ LevelsOf(worker.spans) = <<1, 3, 2>> =>
              /\ Children(tree, 1) = <<2>>
              /\ Children(tree, 2) = <<3, 4>>
              /\ Children(tree, 3) = << >>
              /\ Children(tree, 4) = << >>
        /\ \A i \in 1..(Len(worker.spans) - 1) :
              worker.spans[i].Level = worker.spans[i + 1].Level =>
                 /\ tree.parent[HeadingNode(i)] = tree.parent[HeadingNode(i + 1)]
                 /\ Children(tree, HeadingNode(i)) = << >>

\* H1, H3, H2 folded
C15_Witness ==
    /\ Folded
    /\ LevelsOf(worker.spans) = <<1, 3, 2>>
    /\ worker.root.parent = <<0, 1, 2, 2>>

\* the bytes of the source outside every heading span, in order
OutsideSpans ==
    LET keep == SelectSeq([p \in 1..Len(worker.src) |-> p],
                          LAMBDA p : \A i \in 1..Len(worker.spans) :
                                        ~(worker.spans[i].Start <= p - 1
                                          /\ p - 1 < worker.spans[i].End))
    IN [k \in 1..Len(keep) |-> worker.src[keep[k]]]

\* the contents of the sections in pre-order, concatenated
PreOrderContent ==
    LET nodes == PreOrder(worker.root, 1)
    IN Flatten([k \in 1..Len(nodes) |-> Content(worker.root, nodes[k])])

----------------------------------------------------------------------------
(***************************************************************************)
(* SpecTokenize: Tokenize applied to a drawn section tree of up to         *)
(* MaxNodes nodes with a counter that gives each node's content 0..MaxTok  *)
(* tokens or fails on it with an error of its own.                         *)
(***************************************************************************)
CounterErrors == <<"counter error 1", "counter error 2", "counter error 3",
                   "counter error 4", "counter error 5">>

\* the counter that fails on the contents of the nodes in failing
FaultyCounter(n, tok, failing) ==
    [kind |-> "faulty",
     tok |-> DrawnCounter(n, tok).tok,
     errs |-> [t \in {NodeText(i, tok[i]) : i \in 1..n} |->
                  LET i == CHOOSE j \in 1..n : NodeText(j, tok[j]) = t
                  IN IF i \in failing THEN CounterErrors[i] ELSE NoErr]]

TokenizeInit ==
    /\ pc = "tokenize"
    /\ IdlePack /\ IdleChunker /\ IdleNew /\ IdleRun /\ IdleWorker /\ IdleStore /\ IdlePasses /\ IdleWalk
    /\ \E n \in 1..MaxNodes :
       \E par \in ParentMaps(n) :
       \E tok \in [1..n -> 0..MaxTok] :
       \E failing \in SUBSET (1..n) :
          measured = [tree |-> DrawnTree(n, par, tok),
                      counter |-> FaultyCounter(n, tok, failing),
                      out |-> << >>]

\* tok.Tokenize(ctx, root)
TokenizeStep ==
    /\ pc = "tokenize"
    /\ measured' = [measured EXCEPT !.out = Tokenize(measured.counter, measured.tree)]
    /\ pc' = "tokenized"
    /\ UNCHANGED <<walkVars, passVars, storeVars, packVars, chunkerVars, newVars, runVars, workerVars>>

TokenizeNext == TokenizeStep

SpecTokenize == TokenizeInit /\ [][TokenizeNext]_vars

\* what the counter says of the own content of node s
OwnCount(s) == Count(measured.counter, Content(measured.tree, s))

RECURSIVE SumSubtree(_)
SumSubtree(tkids) ==
    IF tkids = << >> THEN 0 ELSE Head(tkids).SubtreeTokens + SumSubtree(Tail(tkids))

\* the measured node t is the measure of section s and of all below it
RECURSIVE Measures(_, _)
Measures(t, s) ==
    /\ t.Section = s
    /\ t.ContentTokens = OwnCount(s).n
    /\ t.SubtreeTokens = t.ContentTokens + SumSubtree(t.Children)
    /\ t.SubtreeTokens >= t.ContentTokens
    /\ Len(t.Children) = Len(Children(measured.tree, s))
    /\ \A k \in 1..Len(t.Children) :
          Measures(t.Children[k], Children(measured.tree, s)[k])

\* C17: in the tree Tokenize returns, every node refers to its section, its
\* ContentTokens is the counter's result on the section's own content, its
\* SubtreeTokens is ContentTokens plus the sum of its children's
\* SubtreeTokens, and its children are the measures of the section's
\* children, in the same order.
C17_MeasurementInvariant ==
    (pc = "tokenized" /\ measured.out.err = NoErr) =>
        Measures(measured.out.t, 1)

\* a tree of a root with tokens, a child and a grandchild with tokens
C17_Witness ==
    /\ pc = "tokenized" /\ measured.out.err = NoErr
    /\ measured.tree.parent = <<0, 1, 2>>
    /\ measured.out.t.ContentTokens > 0
    /\ measured.out.t.Children[1].Children[1].ContentTokens > 0
    /\ measured.out.t.SubtreeTokens
          > measured.out.t.ContentTokens + measured.out.t.Children[1].ContentTokens

\* the nodes on whose content the counter fails, in the order of the walk
FailingNodes ==
    SelectSeq(PreOrder(measured.tree, 1), LAMBDA s : OwnCount(s).err # NoErr)

\* the walk up to and with node s
WalkUpTo(s) ==
    LET order == PreOrder(measured.tree, 1)
    IN SubSeq(order, 1, CHOOSE k \in 1..Len(order) : order[k] = s)

\* C18: when the counter fails on the content of a node, Tokenize returns
\* the error of the first such node of the walk, as the counter gave it,
\* and a nil tree; the counter was called on the nodes of the walk up to
\* that node and on no later one.  Without a failing node Tokenize returns
\* no error.
C18_CounterErrorPropagates ==
    pc = "tokenized" =>
        IF FailingNodes = << >>
        THEN measured.out.err = NoErr /\ measured.out.counted = PreOrder(measured.tree, 1)
        ELSE /\ measured.out.err = OwnCount(FailingNodes[1]).err
             /\ measured.out.t = NilSection
             /\ measured.out.counted = WalkUpTo(FailingNodes[1])

\* the counter fails on the first child of the root, which has a second
\* child, and would fail with another error on that one
C18_Witness ==
    /\ pc = "tokenized"
    /\ measured.tree.parent = <<0, 1, 1>>
    /\ FailingNodes = <<2, 3>>
    /\ measured.out.err = "counter error 2"
    /\ measured.out.counted = <<1, 2>>

----------------------------------------------------------------------------
(***************************************************************************)
(* pkg/frontmatter over a heap: a value of type "list" ([]any of strings)  *)
(* or "yamlmap" (map[interface{}]interface{}, what yaml.v2 makes of a      *)
(* nested mapping) is a reference, its field n the address of its elements *)
(* in the heap; two values of one address share their elements.  The heap  *)
(* is a sequence: address a holds heap[a], a new object takes the next     *)
(* address.  json.Marshal fails on a yamlmap.                              *)
(***************************************************************************)
ListValue(addr) == [t |-> "list", s |-> << >>, n |-> addr]

YamlMapValue(addr) == [t |-> "yamlmap", s |-> << >>, n |-> addr]

IsRef(v) == v.t \in {"list", "yamlmap"}

\* deepCopyJSON on the heap h: [h, v]
deepCopyJSONAt(h, v) ==
    CASE v.t = "yamlmap" -> [h |-> h, v |-> NilValue]
      [] v.t = "list" -> [h |-> Append(h, h[v.n]), v |-> ListValue(Len(h) + 1)]
      [] OTHER -> [h |-> h, v |-> deepCopyJSON(v)]

\* the entries of keys copied one by one into out
RECURSIVE cloneEntries(_, _, _, _)
cloneEntries(h, fm, keys, out) ==
    IF keys = {} THEN [h |-> h, fm |-> out]
    ELSE LET k == CHOOSE x \in keys : TRUE
             c == deepCopyJSONAt(h, fm.m[k])
         IN cloneEntries(c.h, fm, keys \ {k}, Store(out, k, c.v))

\* Clone that copies the map and not what its values refer to
CloneShallowAt(h, fm) ==
    IF fm.nil THEN [h |-> h, fm |-> EmptyFrontMatter]
    ELSE [h |-> h, fm |-> [nil |-> FALSE, m |-> fm.m]]

\* FrontMatter.Clone on the heap h: [h, fm]; the errors of Marshal and
\* Unmarshal are dropped and leave the empty map
CloneAt(h, fm) ==
    IF fm.nil THEN [h |-> h, fm |-> EmptyFrontMatter]
    ELSE IF \E k \in DOMAIN fm.m : fm.m[k].t = "yamlmap"
    THEN [h |-> h, fm |-> EmptyFrontMatter]
    ELSE cloneEntries(h, fm, DOMAIN fm.m, EmptyFrontMatter)

\* FrontMatter.View
ViewAt(h, fm) == CloneAt(h, fm)

\* roFrontMatter.Get that hands out the view's own value
GetSharedAt(h, view, key) ==
    [h |-> h, v |-> Lookup(view, key), ok |-> HasKey(view, key)]

\* roFrontMatter.Get: [h, v, ok]
GetAt(h, view, key) ==
    [h |-> deepCopyJSONAt(h, Lookup(view, key)).h,
     v |-> deepCopyJSONAt(h, Lookup(view, key)).v,
     ok |-> HasKey(view, key)]

\* roFrontMatter.AsMap
AsMapAt(h, view) == CloneAt(h, view)

----------------------------------------------------------------------------
(***************************************************************************)
(* SpecView: a metadata map, the view taken of it, the values obtained     *)
(* from the view with Get and AsMap, and up to MaxWrites writes to the map *)
(* and to the obtained values: a key is set or deleted, or an element of a *)
(* list is overwritten in place.                                           *)
(***************************************************************************)
MaxWrites == 2
MaxHeld == 1

ViewKeys == {"title", "count", "tags", "nested"}

\* the map of the document with the keys in keys; the list of tags is at
\* address 1, the nested mapping at address 2
DocOf(keys) ==
    [nil |-> FALSE,
     m |-> [k \in keys |->
              CASE k = "title" -> StringValue(<<"T">>)
                [] k = "count" -> IntValue(42)
                [] k = "tags" -> ListValue(1)
                [] k = "nested" -> YamlMapValue(2)]]

\* what a map holds, its references followed
Deep(h, fm) ==
    [k \in DOMAIN fm.m |->
        IF IsRef(fm.m[k]) THEN [t |-> fm.m[k].t, elems |-> h[fm.m[k].n]]
        ELSE [t |-> fm.m[k].t, elems |-> <<fm.m[k].s, fm.m[k].n>>]]

DeepValue(h, v) == Deep(h, [nil |-> FALSE, m |-> [k \in {"v"} |-> v]])

ViewInit ==
    /\ pc = "view"
    /\ IdlePack /\ IdleChunker /\ IdleNew /\ IdleRun /\ IdleWorker /\ IdleMeasure
    /\ IdlePasses /\ IdleWalk
    /\ \E keys \in SUBSET ViewKeys :
         store = [heap |-> << <<"a", "b">>, <<"k">> >>,
                  doc |-> DocOf(keys),
                  taken |-> FALSE, view |-> EmptyFrontMatter,
                  held |-> << >>, writes |-> 0, last |-> "new",
                  docAtView |-> << >>, snapshot |-> << >>,
                  docBefore |-> << >>, heldBefore |-> << >>]

\* what the values obtained so far hold
DeepHeld(h, held) ==
    [i \in 1..Len(held) |->
        IF held[i].kind = "map" THEN Deep(h, held[i].fm) ELSE DeepValue(h, held[i].v)]

\* the state after a step named op that leaves heap h and the fields of new
Stepped(op, h, new) ==
    [new EXCEPT !.heap = h, !.last = op,
                !.docBefore = Deep(store.heap, store.doc),
                !.heldBefore = DeepHeld(store.heap, store.held)]

\* view := fm.View()
ViewStep ==
    /\ pc = "view" /\ ~store.taken
    /\ store' = Stepped("View", ViewAt(store.heap, store.doc).h,
                        [store EXCEPT !.taken = TRUE,
                                      !.view = ViewAt(store.heap, store.doc).fm,
                                      !.docAtView = Deep(store.heap, store.doc),
                                      !.snapshot = Deep(ViewAt(store.heap, store.doc).h,
                                                        ViewAt(store.heap, store.doc).fm)])
    /\ UNCHANGED <<walkVars, passVars, pc, packVars, chunkerVars, newVars, runVars, workerVars, measureVars>>

\* v, ok := view.Get(key)
GetStep ==
    /\ pc = "view" /\ store.taken /\ Len(store.held) < MaxHeld
    /\ \E key \in ViewKeys :
         store' = Stepped("Get", GetAt(store.heap, store.view, key).h,
                          [store EXCEPT !.held = Append(@,
                              [kind |-> "value", key |-> key,
                               v |-> GetAt(store.heap, store.view, key).v,
                               fm |-> EmptyFrontMatter])])
    /\ UNCHANGED <<walkVars, passVars, pc, packVars, chunkerVars, newVars, runVars, workerVars, measureVars>>

\* m := view.AsMap()
AsMapStep ==
    /\ pc = "view" /\ store.taken /\ Len(store.held) < MaxHeld
    /\ store' = Stepped("AsMap", AsMapAt(store.heap, store.view).h,
                        [store EXCEPT !.held = Append(@,
                            [kind |-> "map", key |-> "", v |-> NilValue,
                             fm |-> AsMapAt(store.heap, store.view).fm])])
    /\ UNCHANGED <<walkVars, passVars, pc, packVars, chunkerVars, newVars, runVars, workerVars, measureVars>>

\* the heap after list[0] = "x" on the list the value v refers to
Overwrite(h, v) == [h EXCEPT ![v.n] = [@ EXCEPT ![1] = "x"]]

\* a write to a value obtained from the view: m[key] = "x", delete(m, key)
\* or list[0] = "x"
WriteHeldStep ==
    /\ pc = "view" /\ store.writes < MaxWrites
    /\ \E i \in 1..Len(store.held) :
         \/ /\ store.held[i].kind = "map"
            /\ \E key \in ViewKeys :
                 store' = Stepped("write held", store.heap,
                     [store EXCEPT !.writes = @ + 1,
                        !.held[i].fm = Store(@, key, StringValue(<<"x">>))])
         \/ /\ store.held[i].kind = "map"
            /\ \E key \in DOMAIN store.held[i].fm.m :
                 /\ store.held[i].fm.m[key].t = "list"
                 /\ store' = Stepped("write held",
                                     Overwrite(store.heap, store.held[i].fm.m[key]),
                                     [store EXCEPT !.writes = @ + 1])
         \/ /\ store.held[i].kind = "value"
            /\ store.held[i].v.t = "list"
            /\ store' = Stepped("write held", Overwrite(store.heap, store.held[i].v),
                                [store EXCEPT !.writes = @ + 1])
    /\ UNCHANGED <<walkVars, passVars, pc, packVars, chunkerVars, newVars, runVars, workerVars, measureVars>>

\* a write to the document's map: fm[key] = "y", delete(fm, key) or
\* list[0] = "x" on a list of the map
WriteDocStep ==
    /\ pc = "view" /\ store.writes < MaxWrites
    /\ \/ \E key \in ViewKeys :
            store' = Stepped("write doc", store.heap,
                [store EXCEPT !.writes = @ + 1,
                              !.doc = Store(@, key, StringValue(<<"y">>))])
       \/ \E key \in DOMAIN store.doc.m :
            store' = Stepped("write doc", store.heap,
                [store EXCEPT !.writes = @ + 1,
                   !.doc.m = [k \in DOMAIN store.doc.m \ {key} |-> store.doc.m[k]]])
       \/ \E key \in DOMAIN store.doc.m :
            /\ store.doc.m[key].t = "list"
            /\ store' = Stepped("write doc", Overwrite(store.heap, store.doc.m[key]),
                                [store EXCEPT !.writes = @ + 1])
    /\ UNCHANGED <<walkVars, passVars, pc, packVars, chunkerVars, newVars, runVars, workerVars, measureVars>>

ViewNext == ViewStep \/ GetStep \/ AsMapStep \/ WriteHeldStep \/ WriteDocStep

SpecView == ViewInit /\ [][ViewNext]_vars

\* what json.Marshal and Unmarshal make of what a map holds: the empty map
\* when a value cannot be marshalled, else a float64 of every int
JsonImage(deep) ==
    IF \E k \in DOMAIN deep : deep[k].t = "yamlmap"
    THEN << >>
    ELSE [k \in DOMAIN deep |->
            IF deep[k].t = "int" THEN [deep[k] EXCEPT !.t = "float64"] ELSE deep[k]]

\* C19: once the view is taken, what the view holds stays what View made of
\* the map at that moment, whatever is written afterwards to the map, to
\* its lists, or to the values obtained from the view with Get and AsMap;
\* a step other than a write to the map leaves what the map holds unchanged;
\* and a write to the map leaves the obtained values unchanged.
C19_ViewIsDetachedSnapshot ==
    (pc = "view" /\ store.taken) =>
        /\ Deep(store.heap, store.view) = store.snapshot
        /\ store.snapshot = JsonImage(store.docAtView)
        /\ store.last # "write doc" => Deep(store.heap, store.doc) = store.docBefore
        /\ store.last = "write doc" =>
              DeepHeld(store.heap, store.held) = store.heldBefore

\* a view with a list, a value of that list obtained with Get and
\* overwritten, and the list of the map overwritten as well
C19_Witness ==
    /\ pc = "view" /\ store.taken
    /\ "tags" \in DOMAIN store.view.m
    /\ store.writes = 2
    /\ Len(store.held) >= 1
    /\ store.held[1].kind = "value" /\ store.held[1].v.t = "list"
    /\ store.heap[store.held[1].v.n] = <<"x", "b">>
    /\ "tags" \in DOMAIN store.doc.m
    /\ store.doc.m["tags"].t = "list"
    /\ store.heap[store.doc.m["tags"].n] = <<"x", "b">>
    /\ store.heap[store.view.m["tags"].n] = <<"a", "b">>

----------------------------------------------------------------------------
(***************************************************************************)
(* SpecAgain: the default tree transforms of New applied, as Push applies  *)
(* them, to a drawn tree and then again to the result.  The tree is a root *)
(* and a section A of level 1, the content of each any text of up to       *)
(* MaxBody symbols out of a word, a space and a line end.                  *)
(***************************************************************************)
MaxBody == 3
MaxPasses == 3

BodySymbols == {"a", " ", NL}

RECURSIVE Bodies(_)
Bodies(len) ==
    IF len = 0 THEN {<< >>}
    ELSE Bodies(len - 1) \cup
         {Append(b, x) : b \in {c \in Bodies(len - 1) : Len(c) = len - 1}, x \in BodySymbols}

\* the loop of Push over the default tree transforms
ApplyDefaults(tree) ==
    sectionLoop(DefaultOptions.sectionTransforms, 1, Background, EmptyFrontMatter,
                tree, << >>).tree

AgainInit ==
    /\ pc = "again"
    /\ IdlePack /\ IdleChunker /\ IdleNew /\ IdleRun /\ IdleWorker /\ IdleMeasure
    /\ IdleStore /\ IdleWalk
    /\ \E rootBody \in Bodies(MaxBody), body \in Bodies(MaxBody) :
         passes = << CreateChild(SetContent(NewRoot(<<"Doc">>), 1, rootBody),
                                 1, <<"A">>, 1, body) >>

\* the transform loop of Push run on the tree the last run left
ApplyDefaultsStep ==
    /\ pc = "again"
    /\ Len(passes) <= MaxPasses
    /\ passes' = Append(passes, ApplyDefaults(passes[Len(passes)]))
    /\ UNCHANGED <<walkVars, pc, packVars, chunkerVars, newVars, runVars, workerVars,
                   measureVars, storeVars>>

AgainNext == ApplyDefaultsStep

SpecAgain == AgainInit /\ [][AgainNext]_vars

\* C20: the default transform set applied a second time leaves the content
\* of every node of the tree as the first application left it.
C20_TwiceIsOnce ==
    (pc = "again" /\ Len(passes) >= 3) =>
        \A s \in 1..passes[1].n : Content(passes[3], s) = Content(passes[2], s)

\* the sections the second application leaves alone: the root, and a
\* heading section whose drawn body has a word
C20_TwiceIsOnceWithBody ==
    (pc = "again" /\ Len(passes) >= 3) =>
        \A s \in 1..passes[1].n :
            (passes[1].level[s] = 0 \/ \E k \in 1..Len(Content(passes[1], s)) :
                                          Content(passes[1], s)[k] = "a")
               => Content(passes[3], s) = Content(passes[2], s)

\* the third application changes nothing any more
C20_ThriceIsTwice ==
    (pc = "again" /\ Len(passes) >= 4) =>
        \A s \in 1..passes[1].n : Content(passes[4], s) = Content(passes[3], s)

----------------------------------------------------------------------------
(***************************************************************************)
(* Properties of appendUnit, step by step (SpecPack).                      *)
(***************************************************************************)
\* the unit the next step of the loop appends
NextUnit == units[pos]

AtUnit == pc = "loop" /\ pos <= Len(units)

\* the chunk the accumulator b makes when it is not empty
ChunkOf(b) ==
    [FilePath |-> b.filePath, FileTitle |-> b.fileTitle, ChunkIndex |-> b.index,
     Text |-> b.frontBlock \o Flatten(b.parts), Tokens |-> b.frontTokens + b.tokens]

\* the chunks of the accumulated fragments: none when there are none
Accumulated(b) == IF b.parts = << >> THEN << >> ELSE <<ChunkOf(b)>>

\* the body tokens of the k-th chunk emitted
BodyTokens(k) == emitted[k].Tokens - params.frontTokens

\* C21: a step that appends a unit whose tokens alone exceed the body budget
\* emits the accumulated fragments as a chunk if there are any, then the
\* unit alone as a chunk of the header and the unit's text with Tokens =
\* frontTokens + the unit's tokens, and leaves the accumulator empty with 0
\* tokens; and every chunk emitted whose body exceeds the body budget is
\* made of one unit.
C21_JumboAlone ==
    [][ /\ (AtUnit /\ NextUnit.tokens > params.bodyBudget) =>
             /\ emitted' = emitted \o Accumulated(builder)
                             \o << [FilePath |-> params.filePath,
                                    FileTitle |-> params.fileTitle,
                                    ChunkIndex |-> builder.index + Len(Accumulated(builder)),
                                    Text |-> params.frontBlock \o NextUnit.text,
                                    Tokens |-> params.frontTokens + NextUnit.tokens] >>
             /\ builder'.parts = << >>
             /\ builder'.tokens = 0
             /\ builder'.index = builder.index + Len(Accumulated(builder)) + 1
        /\ \A k \in 1..Len(emitted') :
              emitted'[k].Tokens - params.frontTokens > params.bodyBudget
                 => Len(origin'[k].parts) = 1 ]_vars

\* a jumbo unit arrived on an accumulator that held fragments: the last two
\* chunks are the flushed fragments and the jumbo unit
C21_Witness ==
    /\ pc = "loop" /\ pos > 2
    /\ units[pos - 1].tokens > params.bodyBudget
    /\ Len(emitted) >= 2
    /\ origin[Len(origin)].via = "jumbo"
    /\ origin[Len(origin) - 1].via = "flush"
    /\ builder.parts = << >>
    /\ params.frontTokens > 0

\* C22: a step that appends a unit with tokens that do not exceed the body
\* budget emits the accumulated fragments as a chunk exactly when the
\* running tokens plus the unit's tokens exceed the body budget, and the
\* accumulator then holds just that unit; otherwise it emits nothing and
\* the unit joins the accumulator.  Units of 2, 2, 2 and 4 tokens under a
\* body budget of 9 (the scenario in hundreds) give the bodies 6 and 4.
C22_FlushWhenOverBudget ==
    [][ (AtUnit /\ NextUnit.tokens > 0 /\ NextUnit.tokens <= params.bodyBudget) =>
          IF builder.tokens + NextUnit.tokens > params.bodyBudget
          THEN /\ emitted' = emitted \o Accumulated(builder)
               /\ builder.parts # << >>
               /\ builder'.parts = <<NextUnit.text>>
               /\ builder'.tokens = NextUnit.tokens
               /\ builder'.index = builder.index + 1
          ELSE /\ emitted' = emitted
               /\ builder'.parts = Append(builder.parts, NextUnit.text)
               /\ builder'.tokens = builder.tokens + NextUnit.tokens
               /\ builder'.index = builder.index ]_vars
    /\ [](LET r == appendAll(newChunkBuilder(<<"a.md">>, <<"A">>, << >>, 0, 9),
                             << [text |-> <<"a">>, tokens |-> 2],
                                [text |-> <<"b">>, tokens |-> 2],
                                [text |-> <<"c">>, tokens |-> 2],
                                [text |-> <<"d">>, tokens |-> 4] >>, << >>, << >>)
          IN /\ Len(r.chunks) = 2
             /\ r.chunks[1].Tokens = 6 /\ r.chunks[1].Text = <<"a", "b", "c">>
             /\ r.chunks[2].Tokens = 4 /\ r.chunks[2].Text = <<"d">>)

\* a unit that did not fit the accumulator closed a chunk of two units that
\* filled the budget to the last token
C22_Witness ==
    /\ pc = "loop" /\ pos > 3
    /\ Len(emitted) >= 1
    /\ origin[Len(origin)].via = "flush"
    /\ Len(origin[Len(origin)].parts) = 2
    /\ BodyTokens(Len(emitted)) = params.bodyBudget
    /\ builder.parts = <<units[pos - 1].text>>

\* the nodes of the document without tokens of their own
BareNodes == {s \in 1..params.tree.n : OwnTokens(s) <= 0}

\* C23: a unit with zero or negative tokens is skipped: appendUnit on the
\* accumulator as it stands returns no chunk and leaves the parts, the
\* running tokens and the index as they were, also for a text that is not
\* empty; and traverseUnits yields no unit for a node without own tokens,
\* so that the units are the nodes with tokens, in pre-order.
C23_NoTokensNoTrace ==
    pc = "loop" =>
        /\ \A s \in BareNodes : \A t \in {OwnTokens(s), -1} :
              appendUnit(builder, Content(params.tree, s), t) =
                  [b |-> builder, chunks |-> << >>, from |-> << >>]
        /\ \A k \in 1..Len(units) : units[k].tokens > 0
        /\ [k \in 1..Len(units) |-> units[k].text] = UnitTexts
        /\ \A s \in BareNodes :
              \A k \in 1..Len(units) : units[k].text # Content(params.tree, s)

\* a document with a node that has text but no tokens, while the
\* accumulator holds a fragment
C23_Witness ==
    /\ pc = "loop"
    /\ builder.parts # << >>
    /\ builder.tokens > 0
    /\ \E s \in BareNodes : Content(params.tree, s) # << >>
    /\ pos <= Len(units)

----------------------------------------------------------------------------
(***************************************************************************)
(* The jumbo check of the run and the jumbo path of the packer (Spec).     *)
(***************************************************************************)
\* the chunks of the last document that the packer emitted on its jumbo
\* path
ViaJumbo ==
    {k \in 1..Len(lastCall.out.docChunks) : lastCall.out.from[k].via = "jumbo"}

\* the chunker of budget 1000 and overhead 0.1
ThousandChunker ==
    New(<< Option("WithChunkTokenBudget", 1000),
           Option("WithReservedOverheadRatio", Ratio(1, 10)),
           Option("WithTokenizer", WordCount),
           Option("WithParser", StubParser),
           Option("WithChunkHeader", FileHeader) >>).c

\* a document of one section of 950 tokens under a header of 10 tokens,
\* packed for the chunker of budget 1000 and overhead 0.1
ThousandPacked ==
    appendAll(newChunkBuilder(<<"a.md">>, <<"A">>, <<"---">>, 10,
                              EffectiveBudget(ThousandChunker) - 10),
              << [text |-> <<"s">>, tokens |-> 950] >>, << >>, << >>)

\* C26: of the chunks of a pushed document, the ones the check of the run
\* takes for jumbo (Tokens > EffectiveBudget()) are exactly the ones the
\* packer emitted on its jumbo path, which are the chunks of one unit with
\* more tokens than the body budget, EffectiveBudget() minus the header's
\* tokens; budget 1000, overhead 0.1, a header of 10 tokens and one section
\* of 950 tokens give one chunk of 960 tokens that the check takes for jumbo.
C26_JumboCheckIsJumboPath ==
    /\ Packed =>
         /\ lastCall.out.bodyBudget =
               EffectiveBudget(chunker) - TokensOf(lastCall.out.frontBlock)
         /\ \A k \in 1..Len(lastCall.out.docChunks) :
               /\ (lastCall.out.docChunks[k].Tokens > EffectiveBudget(chunker))
                     <=> k \in ViaJumbo
               /\ k \in ViaJumbo <=> IsJumbo(k)
         /\ JumboChunks(lastCall.out.docChunks, EffectiveBudget(chunker)) =
               LET ks == SelectSeq([k \in 1..Len(lastCall.out.docChunks) |-> k],
                                   LAMBDA k : k \in ViaJumbo)
               IN [j \in 1..Len(ks) |-> lastCall.out.docChunks[ks[j]]]
    /\ EffectiveBudget(ThousandChunker) = 900
    /\ Len(ThousandPacked.chunks) = 1
    /\ ThousandPacked.chunks[1].Tokens = 960
    /\ ThousandPacked.from[1].via = "jumbo"
    /\ Len(JumboChunks(ThousandPacked.chunks, EffectiveBudget(ThousandChunker))) = 1

\* a document under a header with tokens, with a chunk off the jumbo path
\* that fills the effective budget to the last token and a chunk of the
\* jumbo path one token above it
C26_Witness ==
    /\ Packed
    /\ TokensOf(lastCall.out.frontBlock) > 0
    /\ \E j, k \in 1..Len(lastCall.out.docChunks) :
          /\ j \notin ViaJumbo
          /\ lastCall.out.docChunks[j].Tokens = EffectiveBudget(chunker)
          /\ k \in ViaJumbo
          /\ lastCall.out.docChunks[k].Tokens = EffectiveBudget(chunker) + 1

----------------------------------------------------------------------------
(***************************************************************************)
(* Chunks without body, and the greedy packing (SpecPack).                 *)
(***************************************************************************)
\* what Push returns once chunkDocument has returned the chunks emitted
PushAfterPacking ==
    pushAccumulate([chunks |-> << >>], Outcome(<< >>, NoErr, << >>),
                   [chunks |-> emitted, from |-> origin])

\* C27: no chunk is emitted with an empty body: every chunk emitted holds
\* at least one unit, every unit in it has tokens > 0, and its Tokens
\* exceed the header's tokens; a document in which no node has tokens of
\* its own yields no chunk, and Push returns no error for it.
C27_NoEmptyBody ==
    /\ Len(origin) = Len(emitted)
    /\ \A k \in 1..Len(emitted) :
          /\ origin[k].parts # << >>
          /\ \A j \in 1..Len(origin[k].parts) :
                Count(params.counter, origin[k].parts[j]).n > 0
          /\ emitted[k].Tokens > params.frontTokens
    /\ (pc = "done" /\ BareNodes = 1..params.tree.n) =>
          /\ emitted = << >>
          /\ PushAfterPacking.err = NoErr
          /\ PushAfterPacking.chunks = << >>

\* a finished document of several nodes, each with text and none with
\* tokens, under a header that has tokens
C27_Witness ==
    /\ pc = "done"
    /\ params.tree.n >= 2
    /\ BareNodes = 1..params.tree.n
    /\ \A s \in BareNodes : Content(params.tree, s) # << >>
    /\ params.frontTokens > 0
    /\ emitted = << >>

\* the unit that opens the k-th chunk emitted: the number of units in the
\* chunks before it, plus one
FirstUnitOf(k) ==
    units[Len(Flatten([j \in 1..(k - 1) |-> origin[j].parts])) + 1]

\* C28: of two consecutive chunks of a document that are both off the
\* jumbo path, the body tokens of the first plus the tokens of the unit
\* that opens the second exceed the body budget.
C28_GreedyMaximal ==
    \A k \in 1..(Len(emitted) - 1) :
        (origin[k].via = "flush" /\ origin[k + 1].via = "flush") =>
            /\ FirstUnitOf(k + 1).text = origin[k + 1].parts[1]
            /\ BodyTokens(k) + FirstUnitOf(k + 1).tokens > params.bodyBudget

\* a finished document of two chunks off the jumbo path, the first of two
\* units that leave room in the budget
C28_Witness ==
    /\ pc = "done"
    /\ Len(emitted) = 2
    /\ origin[1].via = "flush" /\ origin[2].via = "flush"
    /\ Len(origin[1].parts) = 2
    /\ BodyTokens(1) < params.bodyBudget

----------------------------------------------------------------------------
(***************************************************************************)
(* section.ApplyTransform called with a list of transforms (SpecWalk): a   *)
(* tree of up to MaxWalkNodes nodes and up to MaxTs of the transforms of   *)
(* the package's tests.                                                    *)
(***************************************************************************)
MaxWalkNodes == 4
MaxTs == 2

\* the transforms of the tests: a prefix, a suffix, an error on one title
WalkTransforms ==
    { SectionTransform("addPrefix", <<"p">>, 0),
      SectionTransform("addSuffix", <<"q">>, 0),
      SectionTransform("failOnTitle", <<"c">>, 0) }

WalkInit ==
    /\ pc = "walk"
    /\ IdlePack /\ IdleChunker /\ IdleNew /\ IdleRun /\ IdleWorker /\ IdleMeasure
    /\ IdleStore /\ IdlePasses
    /\ \E n \in 1..MaxWalkNodes :
       \E par \in ParentMaps(n) :
       \E len \in 0..MaxTs :
       \E ts \in [1..len -> WalkTransforms] :
          LET tree == DrawnTree(n, par, [i \in 1..n |-> 0]) IN
          walked = [tree |-> tree, ts |-> ts, out |-> NotWalked(tree)]

\* err := section.ApplyTransform(ctx, frontmatter, root, ts...)
WalkStep ==
    /\ pc = "walk"
    /\ walked' = [walked EXCEPT
                    !.out = ApplyTransform(EmptyFrontMatter, walked.tree,
                                           walked.ts, 1, << >>)]
    /\ pc' = "walked"
    /\ UNCHANGED <<packVars, chunkerVars, newVars, runVars, workerVars,
                   measureVars, storeVars, passVars>>

WalkNext == WalkStep

SpecWalk == WalkInit /\ [][WalkNext]_vars

\* the calls a walk without error makes: node by node in pre-order, and on
\* each node the transforms in the order of the list; <<transform, node>>
RECURSIVE CallsOn(_, _)
CallsOn(nodes, len) ==
    IF nodes = << >> THEN << >>
    ELSE [k \in 1..len |-> <<k, Head(nodes)>>] \o CallsOn(Tail(nodes), len)

\* the calls the walk made, in order
CallsMade == [j \in 1..Len(walked.out.log) |->
                 <<walked.out.log[j].i, walked.out.log[j].node>>]

\* the k first transforms of the list applied in order to the content of
\* node s
RECURSIVE ContentAfter(_, _)
ContentAfter(s, k) ==
    IF k = 0 THEN Content(walked.tree, s)
    ELSE LET t == walked.ts[k]
             c == ContentAfter(s, k - 1)
         IN CASE t.kind = "addPrefix" -> t.arg \o c
              [] t.kind = "addSuffix" -> c \o t.arg
              [] OTHER -> c

\* C24: ApplyTransform calls the transforms node by node in depth-first
\* pre-order, a node before its children and the children left to right,
\* and on each node in the order of the list: the calls it made are the
\* start of that sequence, up to the call that returned an error, and all
\* of it when none did, so that every node is visited once and has the
\* content the list makes of it in its order.
C24_PreOrderDeclaredOrder ==
    pc = "walked" =>
        LET all == CallsOn(PreOrder(walked.tree, 1), Len(walked.ts)) IN
        /\ IsPrefix(CallsMade, all)
        /\ walked.out.err = NoErr =>
              /\ CallsMade = all
              /\ \A s \in 1..walked.tree.n :
                    /\ Len(SelectSeq(CallsMade, LAMBDA c : c[2] = s)) = Len(walked.ts)
                    /\ Content(walked.out.tree, s) = ContentAfter(s, Len(walked.ts))
        /\ walked.out.err # NoErr =>
              /\ CallsMade # << >>
              /\ walked.tree.title[CallsMade[Len(CallsMade)][2]] = <<"c">>
              /\ walked.ts[CallsMade[Len(CallsMade)][1]].kind = "failOnTitle"

\* a walk without error over a node with two children, the first with a
\* child of its own, with a prefix and then a suffix
C24_Witness ==
    /\ pc = "walked"
    /\ walked.out.err = NoErr
    /\ walked.tree.n = 4
    /\ Children(walked.tree, 1) = <<2, 3>>
    /\ Children(walked.tree, 2) = <<4>>
    /\ Len(walked.ts) = 2
    /\ walked.ts[1].kind = "addPrefix" /\ walked.ts[2].kind = "addSuffix"
    /\ CallsMade = << <<1, 1>>, <<2, 1>>, <<1, 2>>, <<2, 2>>,
                     <<1, 4>>, <<2, 4>>, <<1, 3>>, <<2, 3>> >>

----------------------------------------------------------------------------
(***************************************************************************)
(* HeadingPathCommentTransform applied to the sections of a tree, and      *)
(* applied again (SpecComment): a root and up to MaxCommentNodes - 1       *)
(* sections below it, each with a content drawn from CommentContents.      *)
(***************************************************************************)
MaxCommentNodes == 2
MaxApply == 2

\* the breadcrumb comment of node s, without the newline
PathComment(tree, s) ==
    <<"<!--", " ", "path:", " ">> \o computePath(tree, s) \o <<" ", "-->">>

StaleComment == <<"<!--", " ", "path:", " ", "Old", " ", "/", " ", "Path", " ", "-->">>

\* the contents drawn for node s: none, a blank line, text, text under a
\* stale comment, text under the right comment, the right comment alone
CommentContents(tree, s) ==
    { << >>,
      <<NL>>,
      <<"x">>,
      StaleComment \o <<NL, "x">>,
      PathComment(tree, s) \o <<NL, "x">>,
      PathComment(tree, s) \o <<NL>> }

CommentInit ==
    /\ pc = "comment"
    /\ IdlePack /\ IdleChunker /\ IdleNew /\ IdleRun /\ IdleWorker /\ IdleMeasure
    /\ IdleStore /\ IdlePasses
    /\ \E n \in 1..MaxCommentNodes :
       \E par \in ParentMaps(n) :
          LET shape == DrawnTree(n, par, [i \in 1..n |-> 0]) IN
          \E content \in [1..n -> UNION {CommentContents(shape, s) : s \in 1..n}] :
             /\ \A s \in 1..n : content[s] \in CommentContents(shape, s)
             /\ LET tree == [shape EXCEPT !.content = content] IN
                walked = [tree |-> tree,
                          ts |-> << SectionTransform("HeadingPathComment", << >>, 0) >>,
                          out |-> NotWalked(tree)]

\* section.ApplyTransform(ctx, fm, root, HeadingPathCommentTransform()) on
\* the tree the last application left
CommentStep ==
    /\ pc = "comment"
    /\ Len(walked.out.log) < MaxApply * walked.tree.n
    /\ walked.out.err = NoErr
    /\ walked' = [walked EXCEPT
                    !.out = ApplyTransform(EmptyFrontMatter, walked.out.tree,
                                           walked.ts, 1, walked.out.log)]
    /\ UNCHANGED <<pc, packVars, chunkerVars, newVars, runVars, workerVars,
                   measureVars, storeVars, passVars>>

CommentNext == CommentStep

SpecComment == CommentInit /\ [][CommentNext]_vars

\* the transform has been applied to every section
Commented == pc = "comment" /\ Len(walked.out.log) >= walked.tree.n

\* C25 as stated: once the transform has been applied, the content of
\* every section starts with its breadcrumb comment and a newline, a
\* section drawn without content included.
C25_CommentOnEverySection ==
    Commented =>
        \A s \in 1..walked.tree.n :
            HasPrefix(Content(walked.out.tree, s),
                      PathComment(walked.tree, s) \o <<NL>>)

\* what the transform does: a section whose content is empty or blank is
\* left as it is; any other content gets the comment and a newline on top,
\* in place of a stale comment on the first line, and is left alone when
\* its first line is the right comment.
C25_CommentUnlessBlank ==
    Commented =>
        \A s \in 1..walked.tree.n :
            LET drawn == Content(walked.tree, s)
                comment == PathComment(walked.tree, s)
                now == Content(walked.out.tree, s)
            IN /\ TrimSpace(drawn) = << >> => now = drawn
               /\ drawn = <<"x">> => now = comment \o <<NL, "x">>
               /\ drawn = StaleComment \o <<NL, "x">> => now = comment \o <<NL, "x">>
               /\ HasPrefix(drawn, comment \o <<NL>>) => now = drawn

\* the transform was applied to a root without content and left it so
C25_EmptyLeftEmpty ==
    /\ Commented
    /\ walked.tree.n = 1
    /\ Content(walked.tree, 1) = << >>
    /\ Content(walked.out.tree, 1) = << >>
    /\ walked.out.err = NoErr

----------------------------------------------------------------------------
(***************************************************************************)
(* fold run heading by heading (SpecFoldSteps): a source of one byte per   *)
(* heading line and one byte after the last, and up to MaxHeadings         *)
(* headings with levels down to LowestLevel, zero and negative levels      *)
(* included.  worker.next is the loop variable i (from 1) and worker.at    *)
(* the place in fold.                                                      *)
(***************************************************************************)
MaxHeadings == 3
\* how many levels below 1 are drawn: 0 and -1
BadLevels == 2

LowestLevel == 1 - BadLevels

FoldStepsInit ==
    /\ pc = "foldsteps"
    /\ IdlePack /\ IdleChunker /\ IdleNew /\ IdleRun /\ IdleMeasure /\ IdleStore
    /\ IdlePasses /\ IdleWalk
    /\ \E k \in 0..MaxHeadings :
       \E levels \in [1..k -> LowestLevel..MaxLevel] :
          worker = [src |-> SubSeq(SrcBytes, 1, k + 1),
                    spans |-> [i \in 1..k |->
                                 [Start |-> i - 1, End |-> i,
                                  Level |-> levels[i], Title |-> HeadingTitle(i)]],
                    root |-> << >>, stack |-> << >>, cursor |-> 0,
                    err |-> NoErr, next |-> 0, at |-> "start"]

\* "w.root = section.NewRoot(docTitle)", the stack of the root, the cursor
FoldStartStep ==
    /\ pc = "foldsteps" /\ worker.at = "start"
    /\ worker' = [worker EXCEPT !.root = NewRoot(<<"Doc">>), !.stack = <<1>>,
                                !.cursor = 0, !.next = 1, !.at = "loop"]
    /\ UNCHANGED <<walkVars, passVars, storeVars, measureVars, packVars,
                   chunkerVars, newVars, runVars, pc>>

\* one iteration of "for i, h := range w.spans", with its return on error
FoldHeadingStep ==
    /\ pc = "foldsteps" /\ worker.at = "loop"
    /\ worker.next <= Len(worker.spans)
    /\ LET w == foldHeading(worker, worker.spans[worker.next]) IN
       worker' = [w EXCEPT !.next = worker.next + 1,
                           !.at = IF w.err # NoErr THEN "returned" ELSE "loop"]
    /\ UNCHANGED <<walkVars, passVars, storeVars, measureVars, packVars,
                   chunkerVars, newVars, runVars, pc>>

\* the trailing content and "return nil"
FoldTrailingStep ==
    /\ pc = "foldsteps" /\ worker.at = "loop"
    /\ worker.next > Len(worker.spans)
    /\ worker' = [foldTrailing(worker) EXCEPT !.at = "returned"]
    /\ UNCHANGED <<walkVars, passVars, storeVars, measureVars, packVars,
                   chunkerVars, newVars, runVars, pc>>

FoldStepsNext == FoldStartStep \/ FoldHeadingStep \/ FoldTrailingStep

SpecFoldSteps == FoldStepsInit /\ [][FoldStepsNext]_vars

\* fold has set up its stack
Folding == pc = "foldsteps" /\ worker.at # "start"

\* the headings the loop has taken so far
Taken == 1..(worker.next - 1)

\* C29: at every step of fold the stack is not empty, its bottom frame is
\* the root, the levels of its frames strictly increase from bottom to
\* top, and each frame is the parent of the frame above it; fold fails
\* with the error of parentForLevel exactly at a heading of level <= 0, so
\* never when the levels are >= 1.
C29_StackIsAPath ==
    Folding =>
        /\ worker.stack # << >>
        /\ worker.stack[1] = 1
        /\ worker.root.level[1] = 0 /\ worker.root.parent[1] = 0
        /\ \A j \in 1..(Len(worker.stack) - 1) :
              /\ worker.root.level[worker.stack[j]]
                    < worker.root.level[worker.stack[j + 1]]
              /\ worker.root.parent[worker.stack[j + 1]] = worker.stack[j]
        /\ (worker.err # NoErr) <=> (\E i \in Taken : worker.spans[i].Level <= 0)
        /\ worker.err # NoErr =>
              /\ worker.err = "invalid section stack"
              /\ worker.at = "returned"
              /\ worker.spans[worker.next - 1].Level <= 0
              /\ parentForLevel(worker.root, worker.stack,
                                worker.spans[worker.next - 1].Level) < 1

\* three headings taken without error, the third no deeper than the
\* second, so that the stack was cut back before the third was pushed
C29_Witness ==
    /\ Folding
    /\ worker.err = NoErr
    /\ worker.next = 4
    /\ worker.spans[3].Level <= worker.spans[2].Level
    /\ worker.spans[1].Level < worker.spans[3].Level
    /\ Len(worker.stack) = 3

\* fold returned the error at a heading of level 0 that came after a
\* heading of level 1
C29_FailsAtLevelZero ==
    /\ Folding
    /\ worker.at = "returned"
    /\ worker.err = "invalid section stack"
    /\ worker.next = 3
    /\ worker.spans[1].Level = 1
    /\ worker.spans[2].Level = 0

----------------------------------------------------------------------------
(***************************************************************************)
(* Push on chunkers whose metadata transforms set or delete do_not_embed,  *)
(* or fail after setting it (SpecSkip): the calls of Spec on other         *)
(* configurations.                                                         *)
(***************************************************************************)
ConfigMarking ==
    << Option("WithChunkTokenBudget", 24),
       Option("WithTokenizer", WordCount),
       Option("WithParser", StubParser),
       Option("WithChunkHeader", FileHeader),
       Option("WithFrontMatterTransforms",
              << FmTransform("markDoNotEmbed", "") >>) >>

ConfigUnmarking ==
    << Option("WithChunkTokenBudget", 24),
       Option("WithTokenizer", WordCount),
       Option("WithParser", StubParser),
       Option("WithChunkHeader", FileHeader),
       Option("WithFrontMatterTransforms",
              << FmTransform("unmarkDoNotEmbed", "") >>) >>

ConfigMarkingThenFailing ==
    << Option("WithChunkTokenBudget", 24),
       Option("WithTokenizer", WordCount),
       Option("WithParser", StubParser),
       Option("WithChunkHeader", FileHeader),
       Option("WithFrontMatterTransforms",
              << FmTransform("markDoNotEmbed", ""),
                 FmTransform("RequireSummary", "") >>) >>

SkipConfigs == {ConfigMarking, ConfigUnmarking, ConfigMarkingThenFailing}

SkipInit ==
    /\ pc = "chunker"
    /\ \E cfg \in SkipConfigs : given = cfg /\ chunker = New(cfg).c
    /\ made = << >>
    /\ lastCall = [op |-> "New", input |-> NoInput, ctx |-> Background,
                   before |-> << >>, out |-> Outcome(<< >>, NoErr, << >>)]
    /\ hist = << >>
    /\ calls = 0
    /\ IdlePack /\ IdleRun /\ IdleWorker /\ IdleMeasure /\ IdleStore /\ IdlePasses
    /\ IdleWalk

SpecSkip == SkipInit /\ [][Next]_vars

\* what the metadata transforms of the chunker make, one after the other,
\* of the map the parser returned for the last Push: [fm, err]
MetadataOfLast ==
    ApplyFmTransform(WithFileInfo(lastCall.ctx, [Path |-> lastCall.input.Path,
                                                 Title |-> lastCall.input.Title]),
                     lastCall.out.parsed, chunker.config.fmTransforms)

\* the last call was a Push of a valid input, with a context that is never
\* cancelled, that the parser accepted
PushedParsed ==
    /\ Pushed
    /\ ValidInput(lastCall.input)
    /\ lastCall.ctx = Background
    /\ Parse(chunker.config.parser, lastCall.input.Markdown).err = NoErr

\* the calls after the metadata transforms: tree transforms, header
\* generator, tokenizer
LaterCalls ==
    SelectSeq(lastCall.out.log, LAMBDA e : e.op \notin {"parse", "fm"})

\* C30: Push reads do_not_embed from the map as the metadata transforms
\* leave it, before any tree transform: when a metadata transform fails its
\* error is returned, flag or no flag; otherwise when the map then has the
\* boolean true, from the document or from a transform, Push returns nil
\* without a call of a tree transform, the header generator or the
\* tokenizer and without a chunk; otherwise, also for a document that came
\* with the flag, the calls go on; and every call of a metadata transform
\* comes before every call of those.
C30_FlagReadAfterMetadata ==
    /\ PushedParsed =>
         IF MetadataOfLast.err # NoErr
         THEN /\ lastCall.out.err = "frontmatter transform failed"
              /\ LaterCalls = << >>
              /\ Chunks(chunker) = lastCall.before
         ELSE IF FlagSet(MetadataOfLast.fm)
         THEN /\ lastCall.out.err = NoErr
              /\ lastCall.out.skipped
              /\ LaterCalls = << >>
              /\ Chunks(chunker) = lastCall.before
         ELSE /\ ~lastCall.out.skipped
              /\ LaterCalls # << >>
              /\ LaterCalls[1].op = "section"
    /\ Pushed =>
         \A j, k \in 1..Len(lastCall.out.log) :
            (lastCall.out.log[j].op = "fm" /\ lastCall.out.log[k].op \notin {"parse", "fm"})
               => j < k

\* a document without the flag that a metadata transform flagged: Push
\* returned nil at the check
C30_Witness ==
    /\ PushedParsed
    /\ ~FlagSet(lastCall.out.parsed)
    /\ FlagSet(MetadataOfLast.fm)
    /\ MetadataOfLast.err = NoErr
    /\ lastCall.out.skipped
    /\ lastCall.out.err = NoErr

\* a document that came with the flag and lost it to a metadata transform
\* was packed
C30_UnflaggedIsPacked ==
    /\ PushedParsed
    /\ FlagSet(lastCall.out.parsed)
    /\ ~FlagSet(MetadataOfLast.fm)
    /\ lastCall.out.err = NoErr
    /\ lastCall.out.docChunks # << >>

\* a document with the flag for which a metadata transform failed: the
\* error is returned
C30_FlaggedStillFails ==
    /\ PushedParsed
    /\ FlagSet(lastCall.out.parsed)
    /\ MetadataOfLast.err # NoErr
    /\ lastCall.out.err = "frontmatter transform failed"
====
